---- MODULE Spec2Model ----
(***************************************************************************)
(* A model of the request pipeline of Dirflow2's Python server:           *)
(*   validation/command_validator.py  (CommandValidator)                  *)
(*   ai/agent_dispatcher.py           (AgentDispatcher)                   *)
(*   chat/chat_orchestrator.py        (ChatOrchestrator)                  *)
(*   validation/response_builder.py   (ResponseBuilder)                   *)
(*                                                                         *)
(* Data conventions.  A JSON/Python value is a record                     *)
(*   [t, s, n, l, o]                                                       *)
(* t the type tag ("absent" for a key the mapping does not hold, "null",  *)
(* "str", "int", "bool", "float", "list", "dict"), s the characters of a  *)
(* string (a sequence of one-character strings; an identifier that the    *)
(* code only ever compares as a whole, such as an action name, is written *)
(* as one symbol), n the number of an int or bool (True = 1), l the       *)
(* elements of a list and o the entries of a mapping used as search       *)
(* options.  List elements and option entries are records [t, s, n].      *)
(***************************************************************************)
EXTENDS Integers, Sequences, FiniteSets, TLC

VARIABLES
    cmd,        \* the command handed to CommandValidator.validate
    outcome,    \* "pending", then "accepted" or the reason validate raised with
    validations,    \* how many times validate has been called on cmd
    batch,      \* the argument of CommandValidator.validate_batch
    batch_result,   \* what validate_batch returned, NoBatchResult before
    context,    \* the context argument of process_chat and of dispatch
    test_invalid_command,   \* dispatch: its test_invalid_command parameter
    d_pc,       \* dispatch: where the coroutine stands
    agent,      \* dispatch: the key of the selected agent, "" before selection
    llm_calls,  \* dispatch: the calls made to llm_adapter.call_llm, in order
    d_locals,   \* dispatch: its locals as the inner try of lines 90-116 left them
    result,     \* dispatch: the DispatchResult returned, NoResult before
    message,    \* process_chat: its message argument
    c_pc,       \* process_chat: where the coroutine stands
    validated,  \* process_chat: validated_commands
    executed,   \* process_chat: how many of validated_commands the loop has passed
    response,   \* process_chat: what the caller gets, NoResponse before
    searches,   \* process_chat: the calls made to perform_search, in order
    error_text, \* the text of the error build_error_response is called with
    max_history_items,  \* ConversationManager: self.max_history_items
    max_history_length, \* ConversationManager: self.max_history_length
    history,    \* the conversationHistory given to the ConversationManager
    optimized,  \* what _optimize_conversation_history returned, NotOptimized before
    enriched,   \* what prepare_context returned or raised, NotPrepared before
    suggestion  \* what should_suggest_new_chat gave: "yes", "no", "raised"; "idle" before

validatorVars == <<cmd, outcome, validations, batch, batch_result>>
dispatchVars == <<context, test_invalid_command, d_pc, agent, llm_calls, d_locals,
                  result>>
chatVars == <<message, c_pc, validated, executed, response, searches, error_text>>
conversationVars == <<max_history_items, max_history_length, history, optimized,
                      enriched, suggestion>>
vars == <<cmd, outcome, validations, batch, batch_result, context,
          test_invalid_command, d_pc, agent, llm_calls, d_locals, result,
          message, c_pc, validated, executed, response, searches, error_text,
          max_history_items,
          max_history_length, history, optimized, enriched, suggestion>>

-----------------------------------------------------------------------------
(* Bounds of the model and constants of the program *)

\* a command of the validator's input universe carries at most this many
\* fields besides action
MaxFields == 2

\* a completion is at most this many tokens long
MaxTokens == 3

\* a decoded list holds at most this many candidate commands
MaxCandidates == 2

\* validate is called at most this many times on one command
MaxValidations == 3

\* validate_batch is given at most this many commands
MaxBatch == 3

\* a conversationHistory has at most this many exchanges, the one long
\* history LongHistory apart
MaxHistory == 3

\* command_validator.py:128, the cap on a batch list
BatchLimit == 100

\* command_validator.py:138, the cap on a search query
MaxQueryLength == 500

\* command_validator.py:152, the range of maxResults
MinResults == 1
MaxResults == 20

\* command_validator.py:163 and 168, the length of a language or region code
CodeLength == 2

-----------------------------------------------------------------------------
(* Values *)

OptKeys == {"maxResults", "provider", "language", "region",
            "filterDomains", "excludeDomains", "other"}

AbsentE == [t |-> "absent", s |-> <<>>, n |-> 0]
NullE == [t |-> "null", s |-> <<>>, n |-> 0]
StrE(chars) == [t |-> "str", s |-> chars, n |-> 0]
IntE(k) == [t |-> "int", s |-> <<>>, n |-> k]
BoolE(k) == [t |-> "bool", s |-> <<>>, n |-> k]
FloatE(k) == [t |-> "float", s |-> <<>>, n |-> k]
ListE == [t |-> "list", s |-> <<>>, n |-> 0]

NoOpts == [k \in OptKeys |-> AbsentE]

Val(e) == [t |-> e.t, s |-> e.s, n |-> e.n, l |-> <<>>, o |-> NoOpts]
Absent == Val(AbsentE)
Null == Val(NullE)
VStr(chars) == Val(StrE(chars))
VInt(k) == Val(IntE(k))
VBool(k) == Val(BoolE(k))
VList(elems) == [t |-> "list", s |-> <<>>, n |-> 0, l |-> elems, o |-> NoOpts]
VDict(opts) == [t |-> "dict", s |-> <<>>, n |-> 0, l |-> <<>>, o |-> opts]
VOpt(key, e) == VDict([NoOpts EXCEPT ![key] = e])

\* n copies of one element
Repeat(e, n) == [i \in 1..n |-> e]

\* Python's bool(v), as used by `if command.get(field):`; command.get of a
\* missing key is None
Truthy(v) ==
    CASE v.t = "absent" -> FALSE
      [] v.t = "null" -> FALSE
      [] v.t = "str" -> Len(v.s) > 0
      [] v.t \in {"int", "bool", "float"} -> v.n # 0
      [] v.t = "list" -> Len(v.l) > 0
      [] v.t = "dict" -> \E k \in OptKeys : v.o[k].t # "absent"

Whitespace == {" ", "\t", "\n"}

\* `not s.strip()`
IsBlank(chars) == \A i \in 1..Len(chars) : chars[i] \in Whitespace

\* `pat in chars`
Contains(chars, pat) ==
    \E i \in 1..(Len(chars) - Len(pat) + 1) :
        \A j \in 1..Len(pat) : chars[i + j - 1] = pat[j]

\* chars.startswith(pat)
StartsWith(chars, pat) ==
    /\ Len(pat) <= Len(chars)
    /\ \A j \in 1..Len(pat) : chars[j] = pat[j]

\* the first entry of a sequence of check results that is not "ok"
FirstFailure(results) ==
    LET bad == {i \in 1..Len(results) : results[i] # "ok"}
    IN  IF bad = {} THEN "ok"
        ELSE results[CHOOSE i \in bad : \A j \in bad : i <= j]

-----------------------------------------------------------------------------
(* CommandValidator: the rule tables set by __init__ *)

allowed_actions ==
    {"create_file", "create_directory", "delete_file", "copy_file", "move_file",
     "read_file", "edit_file", "list_files",
     "batch_delete", "batch_copy", "batch_move",
     "web_search"}

required_fields ==
    [a \in allowed_actions |->
        CASE a \in {"create_file", "create_directory", "delete_file", "read_file"}
                -> <<"path">>
          [] a \in {"copy_file", "move_file"} -> <<"source", "destination">>
          [] a = "edit_file" -> <<"path", "content">>
          [] a = "list_files" -> <<>>
          [] a = "batch_delete" -> <<"paths">>
          [] a \in {"batch_copy", "batch_move"} -> <<"sources", "destination">>
          [] a = "web_search" -> <<"query">>]

dangerous_actions == {"delete_file", "batch_delete", "move_file", "batch_move"}

path_fields == <<"path", "source", "destination">>

batch_fields == <<"paths", "sources">>

dangerous_patterns ==
    << <<".", ".">>,
       <<"~">>,
       <<"/", "e", "t", "c">>,
       <<"/", "v", "a", "r">>,
       <<"/", "u", "s", "r">>,
       <<"/", "b", "i", "n">>,
       <<"/", "s", "b", "i", "n">>,
       <<"/", "r", "o", "o", "t">>,
       <<"C", ":", "\\", "W", "i", "n", "d", "o", "w", "s">>,
       <<"C", ":", "\\", "P", "r", "o", "g", "r", "a", "m">> >>

valid_providers == { <<"auto">>, <<"tavily">>, <<"google">>, <<"duckduckgo">> }

Fields == {"action", "path", "source", "destination", "paths", "sources",
           "content", "query", "options"}

\* a command: kind tells a mapping ("dict") from any other decoded value, f
\* holds the fields of a mapping
NoFields == [fld \in Fields |-> Absent]
Mapping(fs) == [kind |-> "dict", f |-> fs]
NotMapping(kind) == [kind |-> kind, f |-> NoFields]

\* the action of a command whose action passed _validate_action
ActionOf(c) == c.f["action"].s[1]

-----------------------------------------------------------------------------
(* CommandValidator: the checks, each giving "ok" or the reason it raises with *)

is_search_command(c) ==
    /\ c.f["action"].t = "str"
    /\ c.f["action"].s = <<"web_search">>

validate_action(a) ==
    IF ~Truthy(a) \/ a.t # "str" THEN "action_missing"
    ELSE IF ~(Len(a.s) = 1 /\ a.s[1] \in allowed_actions) THEN "action_unsupported"
    ELSE "ok"

HasDangerousPattern(chars) ==
    \E i \in 1..Len(dangerous_patterns) :
        Contains(chars, dangerous_patterns[i]) \/ StartsWith(chars, dangerous_patterns[i])

\* a variant that tests the denylist at the start of the path only
validate_single_path_prefix_only(v) ==
    IF v.t # "str" THEN "path_not_string"
    ELSE IF \E i \in 1..Len(dangerous_patterns) : StartsWith(v.s, dangerous_patterns[i])
    THEN "path_unsafe"
    ELSE IF IsBlank(v.s) THEN "path_empty"
    ELSE "ok"

validate_single_path(v) ==
    IF v.t # "str" THEN "path_not_string"
    ELSE IF HasDangerousPattern(v.s) THEN "path_unsafe"
    ELSE IF IsBlank(v.s) THEN "path_empty"
    ELSE "ok"

validate_paths(c) ==
    FirstFailure([i \in 1..Len(path_fields) |->
        IF Truthy(c.f[path_fields[i]])
        THEN validate_single_path(c.f[path_fields[i]])
        ELSE "ok"])

\* a variant whose cap is off by one
validate_batch_field_off_by_one(v) ==
    IF ~Truthy(v) THEN "ok"
    ELSE IF v.t # "list" THEN "batch_not_list"
    ELSE IF Len(v.l) = 0 THEN "batch_empty"
    ELSE LET each == FirstFailure([i \in 1..Len(v.l) |-> validate_single_path(v.l[i])])
         IN  IF each # "ok" THEN each
             ELSE IF Len(v.l) >= BatchLimit THEN "batch_limit"
             ELSE "ok"

validate_batch_field(v) ==
    IF ~Truthy(v) THEN "ok"
    ELSE IF v.t # "list" THEN "batch_not_list"
    ELSE IF Len(v.l) = 0 THEN "batch_empty"
    ELSE LET each == FirstFailure([i \in 1..Len(v.l) |-> validate_single_path(v.l[i])])
         IN  IF each # "ok" THEN each
             ELSE IF Len(v.l) > BatchLimit THEN "batch_limit"
             ELSE "ok"

validate_batch_paths(c) ==
    FirstFailure([i \in 1..Len(batch_fields) |-> validate_batch_field(c.f[batch_fields[i]])])

validate_search_options(o) ==
    IF /\ o["maxResults"].t # "absent"
       /\ ~(/\ o["maxResults"].t \in {"int", "bool"}
            /\ MinResults <= o["maxResults"].n
            /\ o["maxResults"].n <= MaxResults)
    THEN "options_maxResults"
    ELSE IF /\ o["provider"].t # "absent"
            /\ ~(o["provider"].t = "str" /\ o["provider"].s \in valid_providers)
    THEN "options_provider"
    ELSE IF /\ o["language"].t # "absent"
            /\ ~(o["language"].t = "str" /\ Len(o["language"].s) = CodeLength)
    THEN "options_language"
    ELSE IF /\ o["region"].t # "absent"
            /\ ~(o["region"].t = "str" /\ Len(o["region"].s) = CodeLength)
    THEN "options_region"
    ELSE IF o["filterDomains"].t \notin {"absent", "list"}
    THEN "options_filterDomains"
    ELSE IF o["excludeDomains"].t \notin {"absent", "list"}
    THEN "options_excludeDomains"
    ELSE "ok"

validate_web_search_command(c) ==
    LET q == c.f["query"]
        opts == c.f["options"]
    IN  IF ~Truthy(q) \/ q.t # "str" THEN "query_not_string"
        ELSE IF IsBlank(q.s) THEN "query_empty"
        ELSE IF Len(q.s) > MaxQueryLength THEN "query_too_long"
        ELSE IF Truthy(opts) /\ opts.t # "dict" THEN "options_not_object"
        ELSE IF Truthy(opts) THEN validate_search_options(opts.o)
        ELSE "ok"

\* a variant that tests `field in command` in place of `is None`
validate_required_field_key_only(c, field) ==
    IF c.f[field].t = "absent" THEN "required_missing"
    ELSE IF field # "content" /\ c.f[field].t = "str" /\ IsBlank(c.f[field].s)
    THEN "required_empty"
    ELSE "ok"

validate_required_field(c, field) ==
    IF c.f[field].t \in {"absent", "null"} THEN "required_missing"
    ELSE IF field # "content" /\ c.f[field].t = "str" /\ IsBlank(c.f[field].s)
    THEN "required_empty"
    ELSE "ok"

validate_required_fields(c) ==
    LET required == required_fields[ActionOf(c)]
    IN  FirstFailure([i \in 1..Len(required) |-> validate_required_field(c, required[i])])

\* the targets _validate_deletion_safety looks at
paths_to_check(c) ==
    IF Truthy(c.f["paths"]) THEN c.f["paths"].l
    ELSE IF Truthy(c.f["path"]) THEN << c.f["path"] >>
    ELSE <<>>

deletion_target_unsafe(p) ==
    /\ Truthy(p)
    /\ \/ p.s \in { <<"/">>, <<".">>, <<"*">> }
       \/ Contains(p.s, <<"*">>)

validate_deletion_safety(c) ==
    IF \E i \in 1..Len(paths_to_check(c)) : deletion_target_unsafe(paths_to_check(c)[i])
    THEN "deletion_unsafe"
    ELSE "ok"

check_dangerous_operations(c) ==
    IF ActionOf(c) \in dangerous_actions /\ ActionOf(c) \in {"delete_file", "batch_delete"}
    THEN validate_deletion_safety(c)
    ELSE "ok"

\* CommandValidator.validate: "accepted" when it returns True, else the reason
\* of the first check that raises
validate(c) ==
    IF c.kind # "dict" THEN "command_not_mapping"
    ELSE LET action == validate_action(c.f["action"])
         IN  IF action # "ok" THEN action
             ELSE LET shape == IF is_search_command(c)
                               THEN validate_web_search_command(c)
                               ELSE LET paths == validate_paths(c)
                                    IN  IF paths # "ok" THEN paths
                                        ELSE validate_batch_paths(c)
                  IN  IF shape # "ok" THEN shape
                      ELSE LET required == validate_required_fields(c)
                           IN  IF required # "ok" THEN required
                               ELSE LET dangerous == check_dangerous_operations(c)
                                    IN  IF dangerous # "ok" THEN dangerous
                                        ELSE "accepted"

\* The command as validate leaves it: validate and the checks it calls read
\* the command through .get and [] and assign to none of its keys
command_after_validate_trimmed(c) ==
    IF c.kind = "dict" /\ c.f["path"].t = "str"
    THEN [c EXCEPT !.f["path"].s = IF IsBlank(@) THEN <<>> ELSE @]
    ELSE c

command_after_validate(c) == c

-----------------------------------------------------------------------------
(* CommandValidator.validate_batch *)

\* the argument of validate_batch: a list of items, or no list
AList(items) == [kind |-> "list", items |-> items]
NotAList == [kind |-> "other", items |-> <<>>]

\* an entry of errors (lines 61-65); error is the reason validate raised with
BatchError(index, command, error) ==
    [index |-> index, command |-> command, error |-> error]

\* lines 56-65 on the command at position i of the list, 0 being the first
validate_batch_step_one_based(acc, i, command) ==
    IF validate(command) = "accepted"
    THEN [acc EXCEPT !.validCommands = Append(@, command)]
    ELSE [acc EXCEPT !.errors = Append(@, BatchError(i + 1, command, validate(command)))]

validate_batch_step(acc, i, command) ==
    IF validate(command) = "accepted"
    THEN [acc EXCEPT !.validCommands = Append(@, command)]
    ELSE [acc EXCEPT !.errors = Append(@, BatchError(i, command, validate(command)))]

BatchResult(validCommands, errors, totalProcessed) ==
    [kind |-> "result", validCommands |-> validCommands, errors |-> errors,
     totalProcessed |-> totalProcessed, successCount |-> Len(validCommands),
     errorCount |-> Len(errors)]

NoBatchResult ==
    [kind |-> "none", validCommands |-> <<>>, errors |-> <<>>,
     totalProcessed |-> 0, successCount |-> 0, errorCount |-> 0]

\* line 51
BatchRaised ==
    [kind |-> "raised", validCommands |-> <<>>, errors |-> <<>>,
     totalProcessed |-> 0, successCount |-> 0, errorCount |-> 0]

\* validate_batch; pass[i] holds validated_commands and errors after the
\* first i commands
validate_batch(commands) ==
    IF commands.kind # "list" THEN BatchRaised
    ELSE LET pass[i \in 0..Len(commands.items)] ==
                 IF i = 0 THEN [validCommands |-> <<>>, errors |-> <<>>]
                 ELSE validate_batch_step(pass[i - 1], i - 1, commands.items[i])
         IN  BatchResult(pass[Len(commands.items)].validCommands,
                         pass[Len(commands.items)].errors,
                         Len(commands.items))

-----------------------------------------------------------------------------
(* AgentDispatcher: agents and agent selection *)

\* the keys of self.agents
agents == {"file_expert", "web_search_expert", "general_assistant"}

\* self.agents[key]["name"]; the names are Japanese text and are written here
\* by their keys
AgentName(key) ==
    CASE key = "file_expert" -> "name(file_expert)"
      [] key = "web_search_expert" -> "name(web_search_expert)"
      [] key = "general_assistant" -> "name(general_assistant)"

\* str.lower on the letters of the ASCII alphabet
UpperCase ==
    <<"A", "B", "C", "D", "E", "F", "G", "H", "I", "J", "K", "L", "M",
      "N", "O", "P", "Q", "R", "S", "T", "U", "V", "W", "X", "Y", "Z">>
LowerCase ==
    <<"a", "b", "c", "d", "e", "f", "g", "h", "i", "j", "k", "l", "m",
      "n", "o", "p", "q", "r", "s", "t", "u", "v", "w", "x", "y", "z">>

Lower(ch) ==
    IF \E i \in 1..Len(UpperCase) : UpperCase[i] = ch
    THEN LowerCase[CHOOSE i \in 1..Len(UpperCase) : UpperCase[i] = ch]
    ELSE ch

\* str.strip
Strip(chars) ==
    LET keep == {i \in 1..Len(chars) : chars[i] \notin Whitespace}
    IN  IF keep = {} THEN <<>>
        ELSE SubSeq(chars, CHOOSE i \in keep : \A j \in keep : i <= j,
                           CHOOSE i \in keep : \A j \in keep : i >= j)

KeyFileExpert == <<"f", "i", "l", "e", "_", "e", "x", "p", "e", "r", "t">>
KeyWebSearchExpert == <<"w", "e", "b", "_", "s", "e", "a", "r", "c", "h", "_", "e", "x", "p", "e", "r", "t">>
KeyGeneralAssistant == <<"g", "e", "n", "e", "r", "a", "l", "_", "a", "s", "s", "i", "s", "t", "a", "n", "t">>

\* the Japanese words for "file" and "search", one symbol per character
JaFile == <<"ja_fu", "ja_a", "ja_i", "ja_ru">>
JaSearch == <<"ja_ken", "ja_saku">>

\* the partial matches of lines 283-286 tried in the other order
parse_agent_selection_response_search_first(reply) ==
    LET r == [i \in 1..Len(Strip(reply)) |-> Lower(Strip(reply)[i])]
    IN  IF r = KeyFileExpert THEN "file_expert"
        ELSE IF r = KeyWebSearchExpert THEN "web_search_expert"
        ELSE IF r = KeyGeneralAssistant THEN "general_assistant"
        ELSE IF \/ Contains(r, <<"s", "e", "a", "r", "c", "h">>)
                \/ Contains(r, JaSearch)
                \/ Contains(r, <<"w", "e", "b">>)
        THEN "web_search_expert"
        ELSE IF Contains(r, <<"f", "i", "l", "e">>) \/ Contains(r, JaFile)
        THEN "file_expert"
        ELSE "general_assistant"

parse_agent_selection_response(reply) ==
    LET r == [i \in 1..Len(Strip(reply)) |-> Lower(Strip(reply)[i])]
    IN  IF r = KeyFileExpert THEN "file_expert"
        ELSE IF r = KeyWebSearchExpert THEN "web_search_expert"
        ELSE IF r = KeyGeneralAssistant THEN "general_assistant"
        ELSE IF Contains(r, <<"f", "i", "l", "e">>) \/ Contains(r, JaFile)
        THEN "file_expert"
        ELSE IF \/ Contains(r, <<"s", "e", "a", "r", "c", "h">>)
                \/ Contains(r, JaSearch)
                \/ Contains(r, <<"w", "e", "b">>)
        THEN "web_search_expert"
        ELSE "general_assistant"

\* what the selection call gives: a reply, or an exception
Returned(reply) == [kind |-> "return", reply |-> reply]
Raised == [kind |-> "raise", reply |-> <<>>]

\* _select_agent_with_llm falling back to the file agent at line 250
select_agent_with_llm_file_default(call) ==
    IF call.kind = "raise" THEN "file_expert"
    ELSE IF parse_agent_selection_response(call.reply) \in agents
    THEN parse_agent_selection_response(call.reply)
    ELSE "file_expert"

\* _select_agent_with_llm once its call has ended
select_agent_with_llm(call) ==
    IF call.kind = "raise" THEN "general_assistant"
    ELSE IF parse_agent_selection_response(call.reply) \in agents
    THEN parse_agent_selection_response(call.reply)
    ELSE "general_assistant"

-----------------------------------------------------------------------------
(* AgentDispatcher: completions and their parsing.                         *)
(* A completion is a sequence of tokens: "ws" a run of whitespace, "open"  *)
(* the fence ```json, "close" the fence ```, "text" a run of characters    *)
(* that holds no fence and is no JSON, "json" a JSON document.  Every      *)
(* "json" token of one completion stands for the same document, doc.       *)

TokenKinds == {"ws", "open", "close", "text", "json"}

\* A decoded JSON document: k its type; for a mapping, self its fields as a
\* command, commands_t/items its "commands" entry and msg its "message" entry;
\* for a list, items its elements.
NoDoc ==
    [k |-> "none", self |-> NoFields, commands_t |-> "absent", items |-> <<>>,
     msg |-> AbsentE]

MappingDoc(fs, commands_t, items, msg) ==
    [k |-> "dict", self |-> fs, commands_t |-> commands_t, items |-> items, msg |-> msg]

ListDoc(items) ==
    [k |-> "list", self |-> NoFields, commands_t |-> "absent", items |-> items,
     msg |-> AbsentE]

ScalarDoc ==
    [k |-> "scalar", self |-> NoFields, commands_t |-> "absent", items |-> <<>>,
     msg |-> AbsentE]

EmptyCompletion == [toks |-> <<>>, doc |-> NoDoc]

\* str.strip on tokens
StripTokens(toks) ==
    LET keep == {i \in 1..Len(toks) : toks[i] # "ws"}
    IN  IF keep = {} THEN <<>>
        ELSE SubSeq(toks, CHOOSE i \in keep : \A j \in keep : i <= j,
                          CHOOSE i \in keep : \A j \in keep : i >= j)

\* lines 169-174 without the fence extraction
json_content_fences_kept(toks) == StripTokens(toks)

\* Lines 169-174: the text json.loads is given.  find("```json") is the first
\* "open"; rfind("```") is the last fence of either kind, an "open" beginning
\* with ``` too; `end > start` asks for at least one token between the two.
json_content(toks) ==
    LET c == StripTokens(toks)
        opens == {i \in 1..Len(c) : c[i] = "open"}
        fences == {i \in 1..Len(c) : c[i] \in {"open", "close"}}
    IN  IF opens = {} THEN c
        ELSE LET first == CHOOSE i \in opens : \A j \in opens : i <= j
                 last == CHOOSE i \in fences : \A j \in fences : i >= j
             IN  IF last > first + 1
                 THEN StripTokens(SubSeq(c, first + 1, last - 1))
                 ELSE c

\* json.loads: the text decodes when it is one document and nothing else
Decodes(toks) == toks = <<"json">>

\* a message of a result: a value of the decoded document, the raw completion,
\* the literal of line 143, or the text of line 158
ValueMessage(e) == [kind |-> "value", v |-> e, raw |-> EmptyCompletion]
RawMessage(comp) == [kind |-> "raw", v |-> AbsentE, raw |-> comp]
DefaultMessage == [kind |-> "completed", v |-> AbsentE, raw |-> EmptyCompletion]
ApologyMessage == [kind |-> "apology", v |-> AbsentE, raw |-> EmptyCompletion]

\* bool(message)
MessageTruthy(m) ==
    CASE m.kind = "value" -> Truthy(Val(m.v))
      [] m.kind = "raw" -> Len(m.raw.toks) > 0
      [] OTHER -> TRUE

\* a warning is the sequence of its "; "-joined parts, None the empty one
Warning(what, why) == [what |-> what, why |-> why]

\* _parse_llm_response_for_commands.  The handler of line 204 is not reached:
\* the completion is a string.
parse_llm_response_for_commands(comp) ==
    LET content == json_content(comp.toks)
        parsed == comp.doc
        message_from_llm ==
            IF Decodes(content) /\ parsed.k = "dict" /\ parsed.msg.t # "absent"
            THEN ValueMessage(parsed.msg)
            ELSE IF Decodes(content) /\ parsed.k \in {"dict", "list"}
            THEN ValueMessage(NullE)
            ELSE RawMessage(comp)
    IN  [commands |->
            IF ~Decodes(content) THEN <<>>
            ELSE IF parsed.k = "dict" /\ parsed.self["action"].t # "absent"
            THEN << Mapping(parsed.self) >>
            ELSE IF parsed.k = "dict" /\ parsed.commands_t = "list" THEN parsed.items
            ELSE IF parsed.k = "list" THEN parsed.items
            ELSE <<>>,
         parse_success |->
            /\ Decodes(content)
            /\ \/ /\ parsed.k = "dict"
                  /\ \/ parsed.self["action"].t # "absent"
                     \/ parsed.commands_t = "list"
                     \/ parsed.msg.t # "absent"
               \/ parsed.k = "list",
         warning |->
            IF ~Decodes(content) THEN << Warning("json_parse_failed", <<>>) >>
            ELSE IF parsed.k \notin {"dict", "list"}
            THEN << Warning("unexpected_format", <<>>) >>
            ELSE <<>>,
         message |-> IF MessageTruthy(message_from_llm) THEN message_from_llm
                     ELSE RawMessage(comp)]

-----------------------------------------------------------------------------
(* AgentDispatcher.dispatch *)

\* a context argument: kind tells a mapping ("dict") from None ("none") and
\* from any other value ("other"); of a mapping, customPrompt is the kind of
\* its customPrompt entry and sized tells whether currentFile and
\* openFileInfo are given as strings
Context(kind, customPrompt, sized) ==
    [kind |-> kind, customPrompt |-> customPrompt, sized |-> sized]

NoContext == Context("none", "absent", FALSE)

\* the outcome of a call_llm made for the completion
CompletionReturned(comp) == [kind |-> "return", comp |-> comp, text |-> <<>>]
CompletionRaised(text) == [kind |-> "raise", comp |-> EmptyCompletion, text |-> text]

\* an entry of llm_calls; text is str(e) of a call that raised and the reply
\* of a selection call that returned
LlmCall(purpose, kind, text) == [purpose |-> purpose, kind |-> kind, text |-> text]

\* line 92
test_invalid_response ==
    [toks |-> <<"open", "ws", "json", "ws", "close">>,
     doc |-> MappingDoc([NoFields EXCEPT
                            !["action"] = VStr(<<"non_existent_action">>),
                            !["path"] = VStr(<<"t", "e", "s", "t", ".", "t", "x", "t">>)],
                        "absent", <<>>, AbsentE)]

\* lines 112-115, with commands still unvalidated and llm_response as line 84
\* left it
completion_failure_without_warning(text) ==
    [commands |-> <<>>, parse_success |-> FALSE, warning |-> <<>>,
     error |-> StrE(text), message |-> ValueMessage(NullE),
     llm_response |-> EmptyCompletion]

completion_failure(text) ==
    [commands |-> <<>>, parse_success |-> FALSE,
     warning |-> << Warning("llm_processing_error", text) >>,
     error |-> StrE(text), message |-> ValueMessage(NullE),
     llm_response |-> EmptyCompletion]

\* lines 84-88: the locals before the inner try
NoLocals ==
    [commands |-> <<>>, parse_success |-> FALSE, warning |-> <<>>,
     error |-> NullE, message |-> ValueMessage(NullE),
     llm_response |-> EmptyCompletion]

\* lines 84-116: the locals after the inner try
completion_stage(agentKey, call) ==
    IF call.kind = "raise" THEN completion_failure(call.text)
    ELSE IF AgentName(agentKey) = AgentName("general_assistant")
    THEN [commands |-> <<>>, parse_success |-> TRUE, warning |-> <<>>,
          error |-> NullE, message |-> RawMessage(call.comp),
          llm_response |-> call.comp]
    ELSE LET parsed_data == parse_llm_response_for_commands(call.comp)
         IN  [commands |-> parsed_data.commands,
              parse_success |-> parsed_data.parse_success,
              warning |-> parsed_data.warning,
              error |-> NullE,
              message |-> parsed_data.message,
              llm_response |-> call.comp]

\* one pass of the loop of lines 120-134 over candidate c; acc holds
\* validated_commands and warning.  validate returns True or raises
\* ValueError, so the else of line 124 is not taken.
validate_candidate_keeping_rejected(acc, c) ==
    IF validate(c) = "accepted"
    THEN [acc EXCEPT !.commands = Append(@, c)]
    ELSE [commands |-> Append(acc.commands, c),
          warning |-> Append(acc.warning, Warning("validation_failed", validate(c)))]

validate_candidate(acc, c) ==
    IF validate(c) = "accepted"
    THEN [acc EXCEPT !.commands = Append(@, c)]
    ELSE [acc EXCEPT !.warning = Append(@, Warning("validation_failed", validate(c)))]

\* lines 118-134: the loop over the candidates; pass[i] holds
\* validated_commands and warning after candidate i
validate_candidates(commands, warning) ==
    LET pass[i \in 0..Len(commands)] ==
            IF i = 0 THEN [commands |-> <<>>, warning |-> warning]
            ELSE validate_candidate(pass[i - 1], commands[i])
    IN  pass[Len(commands)]

\* line 143 without its middle branch
final_message_never_raw(stage) ==
    IF MessageTruthy(stage.message) THEN stage.message ELSE DefaultMessage

\* line 143
final_message(stage) ==
    IF MessageTruthy(stage.message) THEN stage.message
    ELSE IF ~stage.parse_success /\ ~Truthy(Val(stage.error))
    THEN RawMessage(stage.llm_response)
    ELSE DefaultMessage

\* lines 118-146: the result, from the locals the inner try left
dispatch_result(agentKey, stage) ==
    LET checked == validate_candidates(stage.commands, stage.warning)
    IN  [agent |-> AgentName(agentKey),
         commands |-> checked.commands,
         raw_llm_response |-> stage.llm_response,
         parse_success |-> stage.parse_success,
         warning |-> checked.warning,
         error |-> stage.error,
         message |-> final_message(stage)]

\* lines 148-159
critical_result(text) ==
    [agent |-> "general_assistant",
     commands |-> <<>>,
     raw_llm_response |-> EmptyCompletion,
     parse_success |-> FALSE,
     warning |-> << Warning("unexpected_error", <<>>) >>,
     error |-> StrE(text),
     message |-> ApologyMessage]

NoResult ==
    [agent |-> "", commands |-> <<>>, raw_llm_response |-> EmptyCompletion,
     parse_success |-> FALSE, warning |-> <<>>, error |-> NullE,
     message |-> ValueMessage(NullE)]

\* str(e) of the AttributeError that context.get raises on a non-mapping
NoAttributeGet == <<"no_attribute_get">>

-----------------------------------------------------------------------------
(* ChatOrchestrator.process_chat and the ResponseBuilder.                  *)
(* The context of the model carries no conversationHistory, so             *)
(* should_suggest_new_chat is False throughout.                            *)

\* chat_orchestrator.py:19-20
given_context(ctx) == IF ctx.kind = "none" THEN Context("dict", "absent", FALSE) ELSE ctx

\* chat_orchestrator.py:24
message_invalid(m) == ~Truthy(Val(m)) \/ m.t # "str"

\* ConversationManager.prepare_context raises: at line 19 on a context that
\* is no mapping; at line 92 when _validate_custom_prompt returned None; at
\* lines 154-155 when currentFile or openFileInfo is the default None
prepare_context_raises(ctx) ==
    \/ ctx.kind # "dict"
    \/ ctx.customPrompt # "dict"
    \/ ~ctx.sized

\* str(e) of what prepare_context raises
prepare_context_error(ctx) ==
    IF ctx.kind # "dict" THEN <<"not_a_mapping">>
    ELSE IF ctx.customPrompt # "dict" THEN NoAttributeGet
    ELSE <<"no_len">>

\* get_mock_response raises at response_utils.py:10 on a message that has no
\* lower()
get_mock_response_raises(m) == m.t # "str"

\* original_context.get("customPrompt", {}).get("enabled") raises, at
\* response_builder.py:48, on a context that is no mapping and on a
\* customPrompt entry that is None or no mapping
custom_prompt_lookup_raises(ctx) ==
    \/ ctx.kind # "dict"
    \/ ctx.customPrompt \in {"null", "other"}

\* a response of process_chat: kind is "success", "error" or "fallback" for
\* an envelope and "raised" for an exception that reaches the caller;
\* error_type is "" and search_results 0 where the envelope has none;
\* search_results is otherwise the position in searches of the call whose
\* results it holds
Envelope(kind, commands, parse_success, warned, err) ==
    [kind |-> kind, commands |-> commands, parse_success |-> parse_success,
     warned |-> warned, error |-> err, error_type |-> "",
     fallback_mode |-> kind \in {"error", "fallback"}, search_results |-> 0]

NoResponse == Envelope("none", <<>>, FALSE, FALSE, NullE)
RaisedResponse == Envelope("raised", <<>>, FALSE, FALSE, NullE)

\* str(error).lower() at response_builder.py:106
lowered(text) == [i \in 1..Len(text) |-> Lower(text[i])]

\* _classify_error with the rule of line 114 tried before that of line 112
classify_error_server_first(text) ==
    IF \/ Contains(lowered(text), <<"a", "p", "i", "_", "k", "e", "y">>)
       \/ Contains(lowered(text), <<"a", "u", "t", "h", "e", "n", "t", "i", "c", "a", "t", "i", "o", "n">>)
    THEN "api_key_missing"
    ELSE IF \/ Contains(lowered(text), <<"r", "a", "t", "e", " ", "l", "i", "m", "i", "t">>)
            \/ Contains(lowered(text), <<"4", "2", "9">>)
    THEN "rate_limit"
    ELSE IF \/ Contains(lowered(text), <<"5", "0", "0">>)
            \/ Contains(lowered(text), <<"5", "0", "2">>)
            \/ Contains(lowered(text), <<"5", "0", "3">>)
    THEN "server_error"
    ELSE IF \/ Contains(lowered(text), <<"n", "e", "t", "w", "o", "r", "k">>)
            \/ Contains(lowered(text), <<"c", "o", "n", "n", "e", "c", "t", "i", "o", "n">>)
            \/ Contains(lowered(text), <<"f", "e", "t", "c", "h">>)
    THEN "network_error"
    ELSE "unknown"

\* ResponseBuilder._classify_error
classify_error(text) ==
    IF \/ Contains(lowered(text), <<"a", "p", "i", "_", "k", "e", "y">>)
       \/ Contains(lowered(text), <<"a", "u", "t", "h", "e", "n", "t", "i", "c", "a", "t", "i", "o", "n">>)
    THEN "api_key_missing"
    ELSE IF \/ Contains(lowered(text), <<"r", "a", "t", "e", " ", "l", "i", "m", "i", "t">>)
            \/ Contains(lowered(text), <<"4", "2", "9">>)
    THEN "rate_limit"
    ELSE IF \/ Contains(lowered(text), <<"n", "e", "t", "w", "o", "r", "k">>)
            \/ Contains(lowered(text), <<"c", "o", "n", "n", "e", "c", "t", "i", "o", "n">>)
            \/ Contains(lowered(text), <<"f", "e", "t", "c", "h">>)
    THEN "network_error"
    ELSE IF \/ Contains(lowered(text), <<"5", "0", "0">>)
            \/ Contains(lowered(text), <<"5", "0", "2">>)
            \/ Contains(lowered(text), <<"5", "0", "3">>)
    THEN "server_error"
    ELSE "unknown"

\* ResponseBuilder.build_error_response
build_error_response(text, m, ctx) ==
    IF get_mock_response_raises(m) \/ custom_prompt_lookup_raises(ctx)
    THEN RaisedResponse
    ELSE [Envelope("error", <<>>, FALSE, TRUE, StrE(text))
             EXCEPT !.error_type = classify_error(text)]

\* ResponseBuilder.build_fallback_response, called with the enriched context
build_fallback_response(m, ctx) ==
    IF get_mock_response_raises(m) \/ custom_prompt_lookup_raises(ctx)
    THEN RaisedResponse
    ELSE Envelope("fallback", <<>>, TRUE, TRUE, NullE)

\* _validate_commands keeping the commands the validator rejects
validate_commands_keeping_rejected(commands) == commands

\* ChatOrchestrator._validate_commands; pass[i] holds validated_commands
\* after command i
validate_commands(commands) ==
    LET pass[i \in 0..Len(commands)] ==
            IF i = 0 THEN <<>>
            ELSE IF validate(commands[i]) = "accepted"
            THEN Append(pass[i - 1], commands[i])
            ELSE pass[i - 1]
    IN  pass[Len(commands)]

\* chat_orchestrator.py:53-57: the loop calls perform_search for command c
runs_search(c) ==
    /\ c.f["action"] = VStr(<<"web_search">>)
    /\ Truthy(c.f["query"])

\* web_search_service.py:58: options.get raises on options that are neither
\* None nor a mapping
perform_search_must_raise(c) == c.f["options"].t \notin {"absent", "null", "dict"}

\* frontend_commands without the filter of line 69
frontend_commands_unfiltered(commands) == commands

\* chat_orchestrator.py:67-70
frontend_commands(commands) ==
    SelectSeq(commands, LAMBDA c : c.f["action"] # VStr(<<"web_search">>))

\* build_success_response takes len() of the message (response_builder.py:147
\* and 174), which raises on a message that is not text
build_success_response_raises(res) ==
    /\ res.message.kind = "value"
    /\ Truthy(Val(res.message.v))
    /\ res.message.v.t # "str"

\* a call of perform_search for a command: outcome is "success" or
\* "failure" as the success entry of what it returned, "raised" for an
\* exception
Search(command, how) == [command |-> command, outcome |-> how]

\* chat_orchestrator.py:49 and 60-61: search_results_data after the loop
search_results_data(calls) ==
    LET done[i \in 0..Len(calls)] ==
            IF i = 0 THEN 0
            ELSE IF calls[i].outcome = "success" THEN i
            ELSE done[i - 1]
    IN  done[Len(calls)]

\* chat_orchestrator.py:73-91
build_success_response(res, commands, calls) ==
    [Envelope("success", frontend_commands(commands), res.parse_success,
              res.warning # <<>>, res.error)
        EXCEPT !.search_results = search_results_data(calls)]

-----------------------------------------------------------------------------
(* ConversationManager *)

\* conversation_manager.py:6 and 7
DefaultHistoryItems == 15
DefaultHistoryLength == 10000

\* conversation_manager.py:204 and 207, the ceilings of the two settings
ItemsCeiling == 50
LengthCeiling == 50000

\* the argument of update_configuration; a setting that is missing is 0,
\* which line 203 and line 206 treat alike
Config(items, length) == [maxHistoryItems |-> items, maxHistoryLength |-> length]

\* lines 203-204
configured_items(config, current) ==
    IF config.maxHistoryItems > 0
    THEN IF config.maxHistoryItems < ItemsCeiling THEN config.maxHistoryItems
         ELSE ItemsCeiling
    ELSE current

\* lines 206-207
configured_length(config, current) ==
    IF config.maxHistoryLength > 0
    THEN IF config.maxHistoryLength < LengthCeiling THEN config.maxHistoryLength
         ELSE LengthCeiling
    ELSE current

\* an entry of the history: its user and ai values, a missing key being
\* AbsentE
Exchange(user, ai) == [user |-> user, ai |-> ai]

\* entry.get(key, ""), the value being a text when the key is there
TextOf(v) == IF v.t = "str" THEN v.s ELSE <<>>

\* lines 100-101: len(entry.get(key, "")) raises TypeError on a value that is
\* there and has no length, None being one
length_raises(entries) ==
    \E i \in 1..Len(entries) :
        \/ entries[i].user.t \notin {"str", "absent"}
        \/ entries[i].ai.t \notin {"str", "absent"}

\* lines 100-102 and line 110
entry_length(entry) == Len(TextOf(entry.user)) + Len(TextOf(entry.ai))

\* _calculate_total_history_length
calculate_total_history_length(entries) ==
    LET total[i \in 0..Len(entries)] ==
            IF i = 0 THEN 0 ELSE total[i - 1] + entry_length(entries[i])
    IN  total[Len(entries)]

\* line 55 taking the first entries instead of the last
window_oldest(entries, n) ==
    IF Len(entries) <= n THEN entries ELSE SubSeq(entries, 1, n)

\* line 55, history[-self.max_history_items:] for a positive setting
window(entries, n) ==
    IF Len(entries) <= n THEN entries
    ELSE SubSeq(entries, Len(entries) - n + 1, Len(entries))

\* the locals of _truncate_history_by_length; done after the break
Truncating(truncated, current_length, done) ==
    [truncated |-> truncated, current_length |-> current_length, done |-> done]

\* lines 109-115 going on after an entry that does not fit
truncate_step_without_break(acc, entry, cap) ==
    IF acc.current_length + entry_length(entry) <= cap
    THEN Truncating(<<entry>> \o acc.truncated,
                    acc.current_length + entry_length(entry), FALSE)
    ELSE acc

\* lines 109-115 on one entry
truncate_step(acc, entry, cap) ==
    IF acc.done THEN acc
    ELSE IF acc.current_length + entry_length(entry) <= cap
    THEN Truncating(<<entry>> \o acc.truncated,
                    acc.current_length + entry_length(entry), FALSE)
    ELSE [acc EXCEPT !.done = TRUE]

\* _truncate_history_by_length: the entries are taken from the last one back
truncate_history_by_length(entries, cap) ==
    LET pass[i \in 0..Len(entries)] ==
            IF i = 0 THEN Truncating(<<>>, 0, FALSE)
            ELSE truncate_step(pass[i - 1], entries[Len(entries) - i + 1], cap)
    IN  pass[Len(entries)].truncated

\* line 122, f"{entry.get('user', '')}_{entry.get('ai', '')}"
duplicate_key(entry) == TextOf(entry.user) \o <<"_">> \o TextOf(entry.ai)

\* lines 121-125 on one entry
remove_duplicate_step(acc, entry) ==
    IF duplicate_key(entry) \in acc.seen THEN acc
    ELSE [seen |-> acc.seen \cup {duplicate_key(entry)},
          unique_history |-> Append(acc.unique_history, entry)]

\* _remove_duplicate_history
remove_duplicate_history(entries) ==
    LET pass[i \in 0..Len(entries)] ==
            IF i = 0 THEN [seen |-> {}, unique_history |-> <<>>]
            ELSE remove_duplicate_step(pass[i - 1], entries[i])
    IN  pass[Len(entries)].unique_history

\* lines 131-132, the test an entry passes to stay
is_complete(entry) ==
    /\ Truthy(entry.user)
    /\ ~IsBlank(entry.user.s)
    /\ (~Truthy(entry.ai) \/ Len(Strip(entry.ai.s)) >= 3)

\* _remove_incomplete_history
remove_incomplete_history(entries) == SelectSeq(entries, is_complete)

\* the outcome of _optimize_conversation_history, with the value the history
\* had after each step: kind is "list" for a returned history
Optimized(windowed, truncated, unique, items) ==
    [kind |-> "list", windowed |-> windowed, truncated |-> truncated,
     unique |-> unique, items |-> items]

\* the TypeError of line 57 left _optimize_conversation_history
OptimizeRaised(windowed) ==
    [kind |-> "raised", windowed |-> windowed, truncated |-> <<>>,
     unique |-> <<>>, items |-> <<>>]

NotOptimized ==
    [kind |-> "none", windowed |-> <<>>, truncated |-> <<>>, unique |-> <<>>,
     items |-> <<>>]

\* lines 57-59
truncated_history(windowed, cap) ==
    IF calculate_total_history_length(windowed) > cap
    THEN truncate_history_by_length(windowed, cap)
    ELSE windowed

\* _optimize_conversation_history
optimize_conversation_history(h, items, cap) ==
    IF h.kind # "list" THEN Optimized(<<>>, <<>>, <<>>, <<>>)
    ELSE IF length_raises(window(h.items, items))
    THEN OptimizeRaised(window(h.items, items))
    ELSE Optimized(
            window(h.items, items),
            truncated_history(window(h.items, items), cap),
            remove_duplicate_history(truncated_history(window(h.items, items), cap)),
            remove_incomplete_history(
                remove_duplicate_history(
                    truncated_history(window(h.items, items), cap))))

\* lines 174-175 of add_history_entry: the history the context holds after
\* the call.  The new entry is appended to the list the context holds, so
\* that list is what stays when _optimize_conversation_history raises.
history_after_add(appended, opt) ==
    IF opt.kind = "raised" THEN appended ELSE opt.items

\* lines 141-144, the Japanese keywords one symbol per character
keywords ==
    {<<"ja_atara", "ja_shi", "ja_i">>, <<"ja_betsu", "ja_no">>,
     <<"ja_chiga", "ja_u">>, <<"c", "h", "a", "n", "g", "e">>,
     <<"s", "w", "i", "t", "c", "h">>,
     <<"ja_ki", "ja_ri", "ja_ka", "ja_e">>, <<"h", "e", "l", "p">>,
     <<"ja_he", "ja_ru", "ja_pu">>, <<"ja_tsuka", "ja_i", "ja_kata">>,
     <<"ja_ki_no", "ja_nou">>}

\* entry.get("user", "").lower() at line 139
lowered_user(entry) ==
    [i \in 1..Len(TextOf(entry.user)) |-> Lower(TextOf(entry.user)[i])]

\* _detect_context_switch
detect_context_switch(entries) ==
    /\ Len(entries) >= 3
    /\ \E keyword \in keywords : Contains(lowered_user(entries[Len(entries)]), keyword)

\* should_suggest_new_chat on a context whose conversationHistory is a list
\* of exchanges
should_suggest_new_chat(entries, items, cap) ==
    IF Len(entries) >= items THEN "yes"
    ELSE IF length_raises(entries) THEN "raised"
    ELSE IF calculate_total_history_length(entries) >= cap THEN "yes"
    ELSE IF detect_context_switch(entries) THEN "yes"
    ELSE "no"

\* the outcome of prepare_context: kind is "context" for a returned context
\* and "raised" for an exception
NotPrepared == [kind |-> "none"]

\* the returned context: its conversationHistory, its customPrompt and the
\* historyCount of its metadata
Prepared(conversationHistory) ==
    [kind |-> "context", conversationHistory |-> conversationHistory,
     customPrompt |-> "dict", historyCount |-> Len(conversationHistory)]

PrepareRaised(error) == [kind |-> "raised", error |-> error]

\* lines 16-17
context_or_empty(ctx) ==
    IF ctx.kind = "none" THEN Context("dict", "absent", FALSE) ELSE ctx

\* lines 19-22 raise on a context that is no mapping, before the history is
\* looked at
overlay_raises(ctx) == context_or_empty(ctx).kind # "dict"

\* prepare_context, given the outcome of its call at line 23
prepare_context(ctx, opt) ==
    IF ~overlay_raises(ctx) /\ opt.kind = "raised" THEN PrepareRaised(<<"no_len">>)
    ELSE IF prepare_context_raises(context_or_empty(ctx))
    THEN PrepareRaised(prepare_context_error(context_or_empty(ctx)))
    ELSE Prepared(opt.items)

-----------------------------------------------------------------------------
(* The state of a component that a specification does not run *)

BatchIdle ==
    /\ batch = NotAList
    /\ batch_result = NoBatchResult

ValidatorIdle ==
    /\ cmd = NotMapping("none")
    /\ outcome = "idle"
    /\ validations = 0
    /\ BatchIdle

ConversationIdle ==
    /\ max_history_items = DefaultHistoryItems
    /\ max_history_length = DefaultHistoryLength
    /\ history = AList(<<>>)
    /\ optimized = NotOptimized
    /\ enriched = NotPrepared
    /\ suggestion = "idle"

DispatcherIdle ==
    /\ test_invalid_command = FALSE
    /\ d_pc = "idle"
    /\ agent = ""
    /\ llm_calls = <<>>
    /\ d_locals = NoLocals
    /\ result = NoResult

OrchestratorIdle ==
    /\ message = NullE
    /\ c_pc = "idle"
    /\ validated = <<>>
    /\ executed = 0
    /\ response = NoResponse
    /\ searches = <<>>
    /\ error_text = <<>>

-----------------------------------------------------------------------------
(* The commands the validator is given: structured data decoded from a     *)
(* completion, so any JSON value may sit in any field.                     *)

Plain == <<"a">>
Blank == <<" ">>
RootMarker == <<"/">>
DotMarker == <<".">>
Star == <<"*">>
Glob == <<"a", "*">>
OutsideAbs == <<"/", "h", "/", "a">>
InsideAbs == <<"/", "w", "o", "r", "k", "s", "p", "a", "c", "e", "/", "a">>

\* a path with the i-th denylisted pattern in its middle
Embedded(i) == <<"d">> \o dangerous_patterns[i] \o <<"x">>

PathStrings ==
    {Plain, Blank, <<>>, RootMarker, DotMarker, Glob, OutsideAbs}
        \cup {Embedded(i) : i \in {1, 9, 10}}

ActionValues ==
    {VStr(<<a>>) : a \in allowed_actions} \cup {VStr(<<"format_disk">>), Absent}

\* The values a field is given.  Every denylisted pattern occurs in one of them.
FieldValues(field) ==
    CASE field = "path" ->
            {VStr(p) : p \in PathStrings} \cup {Null, VInt(0), VInt(5)}
      [] field = "source" ->
            {VStr(Plain), VStr(<<>>), VStr(Embedded(2)), VStr(Embedded(3)), VInt(0)}
      [] field = "destination" ->
            {VStr(Plain), VStr(Blank), VStr(Embedded(4)), VBool(0), Null}
      [] field = "paths" ->
            {VList(<<StrE(Plain)>>),
             VList(<<StrE(Plain), StrE(RootMarker)>>),
             VList(<<StrE(DotMarker)>>),
             VList(<<StrE(Plain), StrE(Glob)>>),
             VList(<<StrE(Plain), StrE(Embedded(5))>>),
             VList(<<StrE(Embedded(6))>>),
             VList(<<StrE(Plain), IntE(5)>>),
             VList(Repeat(StrE(Plain), BatchLimit)),
             VList(Repeat(StrE(Plain), BatchLimit + 1)),
             VList(<<>>), VStr(Plain), VInt(0)}
      [] field = "sources" ->
            {VList(<<StrE(Plain)>>),
             VList(<<StrE(Embedded(7)), StrE(Plain)>>),
             VList(<<StrE(Embedded(8))>>),
             VList(Repeat(StrE(Plain), BatchLimit)),
             VList(Repeat(StrE(Plain), BatchLimit + 1)),
             VList(<<>>), VStr(Plain)}
      [] field = "content" -> {VStr(Plain), VStr(<<>>), Null}
      [] field = "query" ->
            {VStr(Plain), VStr(<<>>), VStr(Blank),
             VStr(Repeat("q", MaxQueryLength)), VStr(Repeat("q", MaxQueryLength + 1)),
             VInt(5)}
      [] field = "options" ->
            {VDict(NoOpts), VOpt("other", IntE(1)),
             Null, VList(<<>>), VInt(0), VStr(<<>>), VStr(Plain),
             VOpt("maxResults", IntE(MinResults - 1)), VOpt("maxResults", IntE(MinResults)),
             VOpt("maxResults", IntE(MaxResults)), VOpt("maxResults", IntE(MaxResults + 1)),
             VOpt("maxResults", StrE(<<"5">>)),
             VOpt("provider", StrE(<<"auto">>)), VOpt("provider", StrE(<<"bing">>)),
             VOpt("language", StrE(<<"j", "a">>)), VOpt("language", StrE(<<"j", "p", "n">>)),
             VOpt("region", StrE(<<"J", "P">>)), VOpt("region", IntE(81)),
             VOpt("filterDomains", ListE), VOpt("filterDomains", StrE(Plain)),
             VOpt("excludeDomains", ListE), VOpt("excludeDomains", NullE)}

DataFields == Fields \ {"action"}

\* the number of fields a command carries besides action
FieldCount(c) == Cardinality({fld \in DataFields : c.f[fld].t # "absent"})

-----------------------------------------------------------------------------
(* The validator on one command.  The command is what a completion decoded *)
(* to: a mapping with any action value, grown one field at a time, or a    *)
(* value that is no mapping.                                               *)

ValidatorInit ==
    /\ cmd \in {Mapping([NoFields EXCEPT !["action"] = a]) : a \in ActionValues}
                \cup {NotMapping("list"), NotMapping("str")}
    /\ outcome = "pending"
    /\ validations = 0
    /\ BatchIdle
    /\ context = NoContext
    /\ DispatcherIdle
    /\ OrchestratorIdle
    /\ ConversationIdle

\* The decoded mapping holds one more field.  options is read by the search
\* branch alone (command_validator.py:141-145) and is given to web_search
\* commands.
AddField ==
    /\ outcome = "pending"
    /\ cmd.kind = "dict"
    /\ FieldCount(cmd) < MaxFields
    /\ \E fld \in DataFields :
          /\ cmd.f[fld].t = "absent"
          /\ fld = "options" => is_search_command(cmd)
          /\ \E v \in FieldValues(fld) : cmd' = [cmd EXCEPT !.f[fld] = v]
    /\ UNCHANGED <<outcome, validations, batch, batch_result, context,
                   dispatchVars, chatVars, conversationVars>>

\* validator.validate(cmd)
Validate ==
    /\ outcome = "pending"
    /\ outcome' = validate(cmd)
    /\ cmd' = command_after_validate(cmd)
    /\ validations' = validations + 1
    /\ UNCHANGED <<batch, batch_result, context, dispatchVars, chatVars,
                   conversationVars>>

ValidatorNext == AddField \/ Validate

ValidatorSpec == ValidatorInit /\ [][ValidatorNext]_vars

-----------------------------------------------------------------------------
(* Properties of CommandValidator.validate, checked under ValidatorSpec *)

Validated == outcome # "pending"
Accepted == outcome = "accepted"
Rejected == outcome \notin {"pending", "accepted"}

\* a mapping whose action is an allowed one
HasAllowedAction(c) ==
    /\ c.kind = "dict"
    /\ c.f["action"].t = "str"
    /\ Len(c.f["action"].s) = 1
    /\ c.f["action"].s[1] \in allowed_actions

NonSearch(c) == c.kind = "dict" /\ c.f["action"] # VStr(<<"web_search">>)

\* the key is there and its value is not null
Present(c, field) == c.f[field].t \notin {"absent", "null"}

OnlyFields(c, fs) == \A fld \in DataFields : c.f[fld].t # "absent" => fld \in fs

\* the denylist as the specification gives it
Denylist ==
    { <<".", ".">>, <<"~">>,
      <<"/", "e", "t", "c">>, <<"/", "v", "a", "r">>, <<"/", "u", "s", "r">>,
      <<"/", "b", "i", "n">>, <<"/", "s", "b", "i", "n">>, <<"/", "r", "o", "o", "t">>,
      <<"C", ":", "\\", "W", "i", "n", "d", "o", "w", "s">>,
      <<"C", ":", "\\", "P", "r", "o", "g", "r", "a", "m">> }

Denylisted(e) == e.t = "str" /\ \E pat \in Denylist : Contains(e.s, pat)

CarriesDenylisted(c) ==
    \/ \E fld \in {"path", "source", "destination"} : Denylisted(c.f[fld])
    \/ \E fld \in {"paths", "sources"} :
          /\ c.f[fld].t = "list"
          /\ \E i \in 1..Len(c.f[fld].l) : Denylisted(c.f[fld].l[i])

AbsoluteOutsideWorkspace(e) ==
    /\ e.t = "str"
    /\ StartsWith(e.s, <<"/">>)
    /\ ~StartsWith(e.s, <<"/", "w", "o", "r", "k", "s", "p", "a", "c", "e">>)
    /\ ~Denylisted(e)

\* C4: for every action other than web_search, validate raises when path,
\* source, destination or an element of paths or sources is a string holding
\* a denylisted pattern anywhere in it; and a command that needs a path alone
\* (create_file, create_directory, read_file) and carries an absolute path
\* outside /workspace with no denylisted pattern in it is accepted.
C4_DenylistRejectsAbsoluteAllowed ==
    Validated =>
        /\ (NonSearch(cmd) /\ CarriesDenylisted(cmd)) => Rejected
        /\ ( /\ HasAllowedAction(cmd)
             /\ ActionOf(cmd) \in {"create_file", "create_directory", "read_file"}
             /\ OnlyFields(cmd, {"path"})
             /\ AbsoluteOutsideWorkspace(cmd.f["path"]) ) => Accepted

\* a denylisted pattern in the middle of a batch element made validate raise
C4_Witness ==
    /\ Rejected
    /\ HasAllowedAction(cmd)
    /\ ActionOf(cmd) = "batch_delete"
    /\ cmd.f["paths"] = VList(<<StrE(Plain), StrE(Embedded(5))>>)

DeletionMarker(e) ==
    /\ e.t = "str"
    /\ (e.s = <<"/">> \/ e.s = <<".">> \/ Contains(e.s, <<"*">>))

\* C5: for every delete_file or batch_delete command, validate raises when
\* the path field or an element of paths is "/" or "." or holds a "*",
\* whatever other fields the command carries.
C5_DeletionMarkersRejected ==
    ( /\ Validated
      /\ HasAllowedAction(cmd)
      /\ ActionOf(cmd) \in {"delete_file", "batch_delete"}
      /\ \/ DeletionMarker(cmd.f["path"])
         \/ /\ cmd.f["paths"].t = "list"
            /\ \E i \in 1..Len(cmd.f["paths"].l) : DeletionMarker(cmd.f["paths"].l[i]) )
    => Rejected

\* C6: validate raises for every non-web_search command whose paths or
\* sources field is present and is an empty list or no list.
C6_EmptyOrNonListBatchRejected ==
    ( /\ Validated
      /\ NonSearch(cmd)
      /\ \E fld \in {"paths", "sources"} :
            /\ Present(cmd, fld)
            /\ (cmd.f[fld].t # "list" \/ Len(cmd.f[fld].l) = 0) )
    => Rejected

Oversized(c) ==
    \E fld \in {"paths", "sources"} : c.f[fld].t = "list" /\ Len(c.f[fld].l) > 100

WellFormedPath(e) == e.t = "str" /\ ~IsBlank(e.s) /\ ~Denylisted(e) /\ ~DeletionMarker(e)

\* a batch command with exactly 100 valid entries and its other fields valid
FullValidBatch(c) ==
    /\ HasAllowedAction(c)
    /\ \/ /\ ActionOf(c) = "batch_delete"
          /\ OnlyFields(c, {"paths"})
          /\ c.f["paths"].t = "list"
          /\ Len(c.f["paths"].l) = 100
          /\ \A i \in 1..100 : WellFormedPath(c.f["paths"].l[i])
       \/ /\ ActionOf(c) \in {"batch_copy", "batch_move"}
          /\ OnlyFields(c, {"sources", "destination"})
          /\ c.f["sources"].t = "list"
          /\ Len(c.f["sources"].l) = 100
          /\ \A i \in 1..100 : WellFormedPath(c.f["sources"].l[i])
          /\ WellFormedPath(c.f["destination"])

\* C7 as stated: validate raises for every command whose paths or sources
\* list has more than 100 entries, and accepts a batch command with exactly
\* 100 valid entries whose other fields are valid.
C7_OversizedBatchRejected ==
    Validated =>
        /\ (cmd.kind = "dict" /\ Oversized(cmd)) => Rejected
        /\ FullValidBatch(cmd) => Accepted

\* C7 as amended: validate raises for every command other than a web_search
\* command whose paths or sources list has more than 100 entries, and accepts
\* a batch command with exactly 100 valid entries whose other fields are valid.
C7_OversizedBatchRejectedNonSearch ==
    Validated =>
        /\ (NonSearch(cmd) /\ Oversized(cmd)) => Rejected
        /\ FullValidBatch(cmd) => Accepted

\* a batch_copy of exactly 100 sources was accepted
C7_Witness ==
    /\ Accepted
    /\ FullValidBatch(cmd)
    /\ ActionOf(cmd) = "batch_copy"

\* C8: for every non-web_search command, validate raises when a path, source
\* or destination field is present with a value that is no string or is empty
\* after trimming, required by the action or not, falsy or not.
C8_PathFieldsMustBeNonEmptyStrings ==
    ( /\ Validated
      /\ NonSearch(cmd)
      /\ \E fld \in {"path", "source", "destination"} :
            /\ Present(cmd, fld)
            /\ (cmd.f[fld].t # "str" \/ IsBlank(cmd.f[fld].s)) )
    => Rejected

\* the required-field schema as the specification gives it
Schema(a) ==
    CASE a \in {"create_file", "create_directory", "delete_file", "read_file"} -> {"path"}
      [] a \in {"copy_file", "move_file"} -> {"source", "destination"}
      [] a = "edit_file" -> {"path", "content"}
      [] a = "list_files" -> {}
      [] a = "batch_delete" -> {"paths"}
      [] a \in {"batch_copy", "batch_move"} -> {"sources", "destination"}
      [] a = "web_search" -> {"query"}

\* C9: for every action and every field of its required-field schema,
\* validate raises when the field is absent or null, and when it is a string
\* that is empty after trimming, save that the content of an edit_file may be
\* the empty string.
C9_RequiredFieldsEnforced ==
    Validated =>
        /\ ( /\ HasAllowedAction(cmd)
             /\ \E fld \in Schema(ActionOf(cmd)) :
                   \/ cmd.f[fld].t \in {"absent", "null"}
                   \/ /\ cmd.f[fld].t = "str"
                      /\ IsBlank(cmd.f[fld].s)
                      /\ fld # "content" ) => Rejected
        /\ ( /\ HasAllowedAction(cmd)
             /\ ActionOf(cmd) = "edit_file"
             /\ OnlyFields(cmd, {"path", "content"})
             /\ cmd.f["path"] = VStr(Plain)
             /\ cmd.f["content"] = VStr(<<>>) ) => Accepted

\* a copy_file that names its source and no destination was rejected
C9_Witness ==
    /\ Rejected
    /\ HasAllowedAction(cmd)
    /\ ActionOf(cmd) = "copy_file"
    /\ cmd.f["source"] = VStr(Plain)
    /\ cmd.f["destination"].t = "absent"

\* the options the specification lets through
OptionsWellFormed(v) ==
    \/ v.t \in {"absent", "null"}
    \/ /\ v.t = "dict"
       /\ v.o["maxResults"].t # "absent" =>
             (v.o["maxResults"].t = "int" /\ v.o["maxResults"].n \in 1..20)
       /\ v.o["provider"].t # "absent" =>
             ( /\ v.o["provider"].t = "str"
               /\ v.o["provider"].s \in {<<"auto">>, <<"tavily">>, <<"google">>, <<"duckduckgo">>} )
       /\ \A k \in {"language", "region"} :
             v.o[k].t # "absent" => (v.o[k].t = "str" /\ Len(v.o[k].s) = 2)
       /\ \A k \in {"filterDomains", "excludeDomains"} :
             v.o[k].t # "absent" => v.o[k].t = "list"

\* C10: validate accepts a web_search command if and only if query is a
\* string, non-empty after trimming, of at most 500 characters and options is
\* absent or a mapping whose recognised keys are well-formed; an options value
\* that is present and no mapping is rejected.
C10_SearchAcceptedIffWellFormed ==
    (Validated /\ cmd.kind = "dict" /\ is_search_command(cmd)) =>
        ( Accepted <=>
            /\ cmd.f["query"].t = "str"
            /\ ~IsBlank(cmd.f["query"].s)
            /\ Len(cmd.f["query"].s) <= 500
            /\ OptionsWellFormed(cmd.f["options"]) )

-----------------------------------------------------------------------------
(* What the language model may answer, and the dispatcher's specification *)

\* replies to the selection prompt
SelectionReplies ==
    {KeyFileExpert, KeyWebSearchExpert, KeyGeneralAssistant,
     <<" ", "W", "e", "b", "\n">>, JaFile, JaSearch, <<"h", "i">>, <<>>,
     <<"w", "e", "b", " ", "f", "i", "l", "e">>, <<"F", "i", "l", "e", "_", "E", "x", "p", "e", "r", "t", " ">>}

\* str(e) of an exception a collaborator raises
ExceptionTexts == {<<>>, <<"boom">>}

CandCreate ==
    Mapping([NoFields EXCEPT !["action"] = VStr(<<"create_file">>),
                             !["path"] = VStr(Plain)])
CandTraversal ==
    Mapping([NoFields EXCEPT !["action"] = VStr(<<"read_file">>),
                             !["path"] = VStr(Embedded(1))])
CandSearch ==
    Mapping([NoFields EXCEPT !["action"] = VStr(<<"web_search">>),
                             !["query"] = VStr(Plain)])
CandSearchListOptions ==
    Mapping([NoFields EXCEPT !["action"] = VStr(<<"web_search">>),
                             !["query"] = VStr(Plain),
                             !["options"] = VList(<<>>)])

\* the elements a decoded list of commands is made of
Candidates ==
    {CandCreate, CandTraversal, CandSearch, CandSearchListOptions, NotMapping("str")}

CandidateLists == UNION {[1..n -> Candidates] : n \in 0..MaxCandidates}

\* the "message" entry of a decoded mapping
MessageValues == {AbsentE, StrE(<<>>), StrE(<<"m">>), IntE(7)}

Docs ==
    {MappingDoc(c.f, "absent", <<>>, m) :
        c \in {CandCreate, CandTraversal}, m \in MessageValues}
    \cup {MappingDoc(NoFields, "list", l, m) :
            l \in CandidateLists, m \in MessageValues}
    \cup {MappingDoc(NoFields, t, <<>>, m) :
            t \in {"absent", "other"}, m \in MessageValues}
    \cup {ListDoc(l) : l \in CandidateLists}
    \cup {ScalarDoc}

TokenSeqs == UNION {[1..n -> TokenKinds] : n \in 0..MaxTokens}

\* the completions: a text that json.loads decodes, with each document it may
\* decode to, or a text that it does not decode
Completions ==
    {[toks |-> t, doc |-> d] :
        t \in {u \in TokenSeqs : Decodes(json_content(u))}, d \in Docs}
    \cup {[toks |-> t, doc |-> NoDoc] :
            t \in {u \in TokenSeqs : ~Decodes(json_content(u))}}

DispatchInit ==
    /\ ValidatorIdle
    /\ OrchestratorIdle
    /\ ConversationIdle
    /\ context \in {Context("dict", "absent", FALSE), NoContext}
    /\ test_invalid_command \in BOOLEAN
    /\ d_pc = "start"
    /\ agent = ""
    /\ llm_calls = <<>>
    /\ d_locals = NoLocals
    /\ result = NoResult

\* dispatch up to the await of line 235; context.get of line 231 raises on a
\* context that is no mapping, which the handler of line 148 turns into the
\* critical result
DispatchBegin ==
    /\ d_pc = "start"
    /\ IF context.kind = "dict"
       THEN d_pc' = "selecting" /\ UNCHANGED result
       ELSE d_pc' = "done" /\ result' = critical_result(NoAttributeGet)
    /\ UNCHANGED <<context, test_invalid_command, agent, llm_calls, d_locals,
                   validatorVars, chatVars, conversationVars>>

\* lines 77-94 with the agent of key: on to the await of line 94, or with
\* test_invalid_command through to the return of line 146
AfterSelection(key) ==
    /\ agent' = key
    /\ IF test_invalid_command
       THEN /\ d_pc' = "done"
            /\ d_locals' = completion_stage(agent', CompletionReturned(test_invalid_response))
            /\ result' = dispatch_result(agent', d_locals')
       ELSE /\ d_pc' = "completing"
            /\ UNCHANGED <<d_locals, result>>
    /\ UNCHANGED <<context, test_invalid_command, validatorVars, chatVars,
                   conversationVars>>

\* the selection call returns a reply
SelectionReturns ==
    /\ d_pc = "selecting"
    /\ \E reply \in SelectionReplies :
          /\ AfterSelection(select_agent_with_llm(Returned(reply)))
          /\ llm_calls' = Append(llm_calls, LlmCall("select", "return", reply))

\* the selection call raises
SelectionRaises ==
    /\ d_pc = "selecting"
    /\ AfterSelection(select_agent_with_llm(Raised))
    /\ \E text \in ExceptionTexts :
          llm_calls' = Append(llm_calls, LlmCall("select", "raise", text))

\* the completion call returns; lines 96-146
CompletionReturns ==
    /\ d_pc = "completing"
    /\ \E comp \in Completions :
          d_locals' = completion_stage(agent, CompletionReturned(comp))
    /\ result' = dispatch_result(agent, d_locals')
    /\ llm_calls' = Append(llm_calls, LlmCall("complete", "return", <<>>))
    /\ d_pc' = "done"
    /\ UNCHANGED <<context, test_invalid_command, agent, validatorVars,
                   chatVars, conversationVars>>

\* the completion call raises; lines 112-146
CompletionRaises ==
    /\ d_pc = "completing"
    /\ \E text \in ExceptionTexts :
          /\ d_locals' = completion_stage(agent, CompletionRaised(text))
          /\ llm_calls' = Append(llm_calls, LlmCall("complete", "raise", text))
    /\ result' = dispatch_result(agent, d_locals')
    /\ d_pc' = "done"
    /\ UNCHANGED <<context, test_invalid_command, agent, validatorVars,
                   chatVars, conversationVars>>

DispatchNext ==
    \/ DispatchBegin
    \/ SelectionReturns
    \/ SelectionRaises
    \/ CompletionReturns
    \/ CompletionRaises

DispatchSpec == DispatchInit /\ [][DispatchNext]_vars

-----------------------------------------------------------------------------
(* Properties of AgentDispatcher.dispatch, checked under DispatchSpec *)

Dispatched == d_pc = "done"

LastCall == llm_calls[Len(llm_calls)]

CompletionCallRaised ==
    /\ llm_calls # <<>>
    /\ LastCall.purpose = "complete"
    /\ LastCall.kind = "raise"

\* the completion was there to be parsed: the call returned, or
\* test_invalid_command put the reply of line 92 in its place
CompletionObtained ==
    /\ agent # ""
    /\ \/ test_invalid_command
       \/ llm_calls # <<>> /\ LastCall.purpose = "complete" /\ LastCall.kind = "return"

AgentLabels == {AgentName(k) : k \in agents} \cup {"general_assistant"}

\* C2: every dispatch ends by returning a DispatchResult that carries agent,
\* commands, raw completion, parse_success, warning, error and message,
\* whatever the selection call and the completion call did; when the
\* completion call raised, error is the text of the failure, commands is
\* empty, parse_success is false and warning is not null.
C2_DispatchAlwaysReturnsResult ==
    /\ d_pc \in {"start", "selecting", "completing", "done"}
    /\ Dispatched =>
          /\ DOMAIN result = {"agent", "commands", "raw_llm_response",
                              "parse_success", "warning", "error", "message"}
          /\ result.agent \in AgentLabels
          /\ result.parse_success \in BOOLEAN
    /\ Dispatched /\ CompletionCallRaised =>
          /\ result.error = StrE(LastCall.text)
          /\ result.commands = <<>>
          /\ result.parse_success = FALSE
          /\ result.warning # <<>>

C2_Witness ==
    /\ Dispatched
    /\ CompletionCallRaised
    /\ LastCall.text = <<"boom">>
    /\ result.error = StrE(<<"boom">>)
    /\ agent = "file_expert"

\* the candidates the parse of the completion gave
ParsedCandidates ==
    IF CompletionObtained /\ agent # "general_assistant"
    THEN parse_llm_response_for_commands(result.raw_llm_response).commands
    ELSE <<>>

AcceptedCandidate(c) == validate(c) = "accepted"
RejectedCandidate(c) == validate(c) # "accepted"

ValidationWarnings == SelectSeq(result.warning, LAMBDA w : w.what = "validation_failed")

\* C3: the commands of a DispatchResult are exactly the parsed candidates
\* that validate accepted, in their order; every rejected candidate left one
\* validation-failure part in warning, carrying the reason of its rejection;
\* and parse_success and error are what the parse left, whatever was
\* rejected.
C3_CommandsAreTheAcceptedCandidates ==
    Dispatched /\ CompletionObtained =>
        LET rejected == SelectSeq(ParsedCandidates, RejectedCandidate)
        IN  /\ result.commands = SelectSeq(ParsedCandidates, AcceptedCandidate)
            /\ \A i \in 1..Len(result.commands) : validate(result.commands[i]) = "accepted"
            /\ Len(ValidationWarnings) = Len(rejected)
            /\ \A i \in 1..Len(rejected) :
                  ValidationWarnings[i].why = validate(rejected[i])
            /\ result.error = NullE
            /\ agent # "general_assistant" =>
                  result.parse_success =
                      parse_llm_response_for_commands(result.raw_llm_response).parse_success

C3_Witness ==
    /\ Dispatched
    /\ ParsedCandidates = <<CandTraversal, CandCreate>>
    /\ result.commands = <<CandCreate>>
    /\ Len(ValidationWarnings) = 1
    /\ result.parse_success

\* a dispatch whose completion went to _parse_llm_response_for_commands
Parsed == Dispatched /\ CompletionObtained /\ agent # "general_assistant"

\* the completion the dispatch obtained
Completion == d_locals.llm_response

\* the text between the first opening json fence and the last fence marker
\* after it, trimmed; the whole text, trimmed, where no fence marker follows
\* the opening fence with text in between.  (The marker ``` that closes a
\* block is also what an opening fence begins with.)
FenceStripped(toks) ==
    LET c == StripTokens(toks)
        inner == {<<i, j>> \in (1..Len(c)) \X (1..Len(c)) :
                     /\ c[i] = "open"
                     /\ \A k \in 1..(i - 1) : c[k] # "open"
                     /\ c[j] \in {"open", "close"}
                     /\ \A k \in (j + 1)..Len(c) : c[k] \notin {"open", "close"}
                     /\ j > i + 1}
    IN  IF inner = {} THEN c
        ELSE LET ij == CHOOSE x \in inner : TRUE
             IN  StripTokens(SubSeq(c, ij[1] + 1, ij[2] - 1))

DecodesTo(kind) ==
    /\ FenceStripped(Completion.toks) = <<"json">>
    /\ Completion.doc.k = kind

HasField(field) == Completion.doc.self[field].t # "absent"

\* C13: for a non-general agent the candidates are the decoded mapping alone
\* when it has an action field, else its commands value when that is a list,
\* and the decoded list when the completion decodes to a list; in these cases
\* and whenever the mapping has a message field parse_success is true.  What
\* is decoded is the text between the first opening json fence and the last
\* fence marker after it.
C13_ParsedCandidates ==
    Parsed =>
        /\ json_content(Completion.toks) = FenceStripped(Completion.toks)
        /\ DecodesTo("dict") /\ HasField("action") =>
              /\ d_locals.commands = << Mapping(Completion.doc.self) >>
              /\ d_locals.parse_success
        /\ DecodesTo("dict") /\ ~HasField("action") /\ Completion.doc.commands_t = "list" =>
              /\ d_locals.commands = Completion.doc.items
              /\ d_locals.parse_success
        /\ DecodesTo("list") =>
              /\ d_locals.commands = Completion.doc.items
              /\ d_locals.parse_success
        /\ DecodesTo("dict") /\ Completion.doc.msg.t # "absent" => d_locals.parse_success

C13_Witness ==
    /\ Parsed
    /\ Completion.toks = <<"open", "json", "close">>
    /\ DecodesTo("dict")
    /\ ~HasField("action")
    /\ Completion.doc.items = <<CandSearch, CandCreate>>
    /\ d_locals.commands = <<CandSearch, CandCreate>>
    /\ result.parse_success

\* C14: for a non-general agent, a completion that does not decode, or that
\* decodes to neither a mapping nor a list, gives commands = [],
\* parse_success = false, a warning, no error, and the raw completion as
\* the message.
C14_UndecodableCompletion ==
    Parsed /\ ~DecodesTo("dict") /\ ~DecodesTo("list") =>
        /\ result.commands = <<>>
        /\ result.parse_success = FALSE
        /\ result.warning # <<>>
        /\ result.error = NullE
        /\ result.message = RawMessage(Completion)

C14_Witness ==
    /\ Parsed
    /\ DecodesTo("scalar")
    /\ result.message = RawMessage(Completion)
    /\ result.warning = << Warning("unexpected_format", <<>>) >>

C14_WitnessEmpty ==
    /\ Parsed
    /\ Completion.toks = <<>>
    /\ result.message = RawMessage(Completion)

\* the general agent answered: the completion call returned
GeneralAnswered ==
    /\ Dispatched
    /\ agent = "general_assistant"
    /\ llm_calls # <<>>
    /\ LastCall.purpose = "complete"
    /\ LastCall.kind = "return"

\* C15: when the general agent is selected and the completion call returns,
\* the result has the raw completion as its message, parse_success = true,
\* no commands and no error, whatever the completion is.
C15_GeneralAgentVerbatim ==
    GeneralAnswered =>
        /\ result.message = RawMessage(Completion)
        /\ result.parse_success = TRUE
        /\ result.commands = <<>>
        /\ result.error = NullE
        /\ result.raw_llm_response = Completion

\* the reply of the selection call, trimmed and lower-cased
TrimmedReply ==
    LET t == Strip(llm_calls[1].text)
    IN  [i \in 1..Len(t) |-> Lower(t[i])]

MentionsFile ==
    Contains(TrimmedReply, <<"f", "i", "l", "e">>) \/ Contains(TrimmedReply, JaFile)

MentionsSearch ==
    \/ Contains(TrimmedReply, <<"s", "e", "a", "r", "c", "h">>)
    \/ Contains(TrimmedReply, JaSearch)
    \/ Contains(TrimmedReply, <<"w", "e", "b">>)

\* the key of an agent, as the characters a reply is compared with
KeyOf(a) ==
    IF a = "file_expert" THEN KeyFileExpert
    ELSE IF a = "web_search_expert" THEN KeyWebSearchExpert
    ELSE KeyGeneralAssistant

Keys == {KeyOf(a) : a \in agents}

\* C16: the selection ends with one of the three agents: the one whose key
\* the trimmed, lower-cased reply equals; else the file agent when the reply
\* mentions file; else the search agent when it mentions search or web; else
\* the general agent; and the general agent when the selection call raised.
C16_SelectionIsTotal ==
    llm_calls # <<>> =>
        /\ agent \in agents
        /\ llm_calls[1].purpose = "select"
        /\ llm_calls[1].kind = "raise" => agent = "general_assistant"
        /\ llm_calls[1].kind = "return" =>
              /\ TrimmedReply \in Keys => KeyOf(agent) = TrimmedReply
              /\ TrimmedReply \notin Keys /\ MentionsFile => agent = "file_expert"
              /\ TrimmedReply \notin Keys /\ ~MentionsFile /\ MentionsSearch =>
                    agent = "web_search_expert"
              /\ TrimmedReply \notin Keys /\ ~MentionsFile /\ ~MentionsSearch =>
                    agent = "general_assistant"

C16_Witness ==
    /\ llm_calls # <<>>
    /\ llm_calls[1].kind = "return"
    /\ llm_calls[1].text = <<"w", "e", "b", " ", "f", "i", "l", "e">>
    /\ agent = "file_expert"

\* the message is a text with at least one character
NonEmptyText(m) ==
    CASE m.kind = "value" -> m.v.t = "str" /\ m.v.s # <<>>
      [] m.kind = "raw" -> m.raw.toks # <<>>
      [] OTHER -> TRUE

\* C26: the message of every DispatchResult is a non-empty string, whatever
\* the completion was, an empty completion for a command-capable agent
\* included.
C26_MessageAlwaysPopulated ==
    Dispatched => NonEmptyText(result.message)

\* C27: for a non-general agent every DispatchResult with parse_success =
\* false carries a warning, also when the completion decodes to a mapping
\* that has no action, no list of commands and no message.
C27_ParseFailureIsFlagged ==
    Parsed /\ ~result.parse_success => result.warning # <<>>

-----------------------------------------------------------------------------
(* The orchestrator's specification: one call of process_chat, with the    *)
(* dispatcher above, or, as in test_chat_orchestrator.py, a dispatcher     *)
(* that raises or gives no result.                                         *)

\* message arguments: None, "", 0, a number, a text
Messages == {NullE, StrE(<<>>), IntE(0), IntE(7), StrE(<<"h", "i">>)}

\* context arguments: None, a value that is no mapping, and mappings
ChatContexts ==
    {NoContext, Context("other", "absent", FALSE)}
    \cup {Context("dict", p, z) :
            p \in {"absent", "null", "other", "dict"}, z \in BOOLEAN}

ChatInit ==
    /\ ValidatorIdle
    /\ DispatcherIdle
    /\ ConversationIdle
    /\ context \in ChatContexts
    /\ message \in Messages
    /\ c_pc = "start"
    /\ validated = <<>>
    /\ executed = 0
    /\ response = NoResponse
    /\ searches = <<>>
    /\ error_text = <<>>

\* chat_orchestrator.py:93-102: the handler of an exception whose str is text
Fail(text) ==
    /\ c_pc' = "done"
    /\ response' = build_error_response(text, message, given_context(context))

\* a web_search command the validator rejects for its options
CandSearchTextOptions ==
    Mapping([NoFields EXCEPT !["action"] = VStr(<<"web_search">>),
                             !["query"] = VStr(Plain),
                             !["options"] = VStr(Plain)])

\* the commands of the result a replaced dispatch returns
ReturnedCommandLists ==
    UNION {[1..n -> {CandCreate, CandSearch, CandSearchTextOptions}] :
              n \in 0..MaxCandidates}

\* lines 19-33, up to the await of dispatch
ChatBegin ==
    /\ c_pc = "start"
    /\ IF message_invalid(message)
       THEN Fail(<<"invalid_message">>) /\ UNCHANGED d_pc
       ELSE IF prepare_context_raises(given_context(context))
       THEN Fail(prepare_context_error(given_context(context))) /\ UNCHANGED d_pc
       ELSE c_pc' = "dispatching" /\ d_pc' = "start" /\ UNCHANGED response
    /\ UNCHANGED <<context, message, error_text, searches, validated,
                   executed, test_invalid_command,
                   agent, llm_calls, d_locals, result, validatorVars, conversationVars>>

\* dispatch raises (test_chat_orchestrator.py:91)
DispatchRaises ==
    /\ c_pc = "dispatching"
    /\ d_pc = "start"
    /\ d_pc' = "replaced"
    /\ \E text \in ExceptionTexts : Fail(text)
    /\ UNCHANGED <<context, message, error_text, searches, validated,
                   executed, test_invalid_command,
                   agent, llm_calls, d_locals, result, validatorVars, conversationVars>>

\* dispatch returns None; lines 39-44
DispatchReturnsNone ==
    /\ c_pc = "dispatching"
    /\ d_pc = "start"
    /\ d_pc' = "replaced"
    /\ c_pc' = "done"
    /\ response' = build_fallback_response(message, context)
    /\ UNCHANGED <<context, message, error_text, searches, validated,
                   executed, test_invalid_command,
                   agent, llm_calls, d_locals, result, validatorVars, conversationVars>>

\* dispatch is replaced by one that returns a result with any commands
\* (test_chat_orchestrator_web_search.py:32-41)
DispatchReturnsCommands ==
    /\ c_pc = "dispatching"
    /\ d_pc = "start"
    /\ d_pc' = "done"
    /\ \E commands \in ReturnedCommandLists :
          result' = [NoResult EXCEPT !.commands = commands,
                                     !.parse_success = TRUE,
                                     !.message = ValueMessage(StrE(<<"m">>))]
    /\ UNCHANGED <<context, message, error_text, searches, validated,
                   executed, c_pc,
                   response, test_invalid_command, agent, llm_calls, d_locals,
                   validatorVars, conversationVars>>

\* dispatch returned its result; line 47
DispatchReturned ==
    /\ c_pc = "dispatching"
    /\ d_pc = "done"
    /\ validated' = validate_commands(result.commands)
    /\ c_pc' = "executing"
    /\ UNCHANGED <<context, message, error_text, searches, executed, response,
                   dispatchVars, validatorVars, conversationVars>>

\* lines 54-61: the search of the next command returns
SearchReturns ==
    /\ c_pc = "executing"
    /\ executed < Len(validated)
    /\ runs_search(validated[executed + 1])
    /\ ~perform_search_must_raise(validated[executed + 1])
    /\ executed' = executed + 1
    /\ \E success \in BOOLEAN :
          searches' = Append(searches,
                             Search(validated[executed + 1],
                                    IF success THEN "success" ELSE "failure"))
    /\ UNCHANGED <<context, message, error_text, c_pc, validated, response,
                   dispatchVars,
                   validatorVars, conversationVars>>

\* line 58: the search of the next command raises
SearchRaises ==
    /\ c_pc = "executing"
    /\ executed < Len(validated)
    /\ runs_search(validated[executed + 1])
    /\ \E text \in ExceptionTexts : Fail(text)
    /\ searches' = Append(searches, Search(validated[executed + 1], "raised"))
    /\ UNCHANGED <<context, message, error_text, validated, executed,
                   dispatchVars,
                   validatorVars, conversationVars>>

\* lines 62-64: the next command is no search
SkipCommand ==
    /\ c_pc = "executing"
    /\ executed < Len(validated)
    /\ ~runs_search(validated[executed + 1])
    /\ executed' = executed + 1
    /\ UNCHANGED <<context, message, error_text, searches, c_pc, validated,
                   response, dispatchVars,
                   validatorVars, conversationVars>>

\* lines 66-91, after the loop
ChatFinish ==
    /\ c_pc = "executing"
    /\ executed = Len(validated)
    /\ IF build_success_response_raises(result)
       THEN Fail(<<"no_len">>)
       ELSE /\ c_pc' = "done"
            /\ response' = build_success_response(result, validated, searches)
    /\ UNCHANGED <<context, message, error_text, searches, validated,
                   executed, dispatchVars,
                   validatorVars, conversationVars>>

ChatNext ==
    \/ ChatBegin
    \/ DispatchRaises
    \/ DispatchReturnsNone
    \/ DispatchReturnsCommands
    \/ DispatchBegin
    \/ SelectionReturns
    \/ SelectionRaises
    \/ CompletionReturns
    \/ CompletionRaises
    \/ DispatchReturned
    \/ SearchReturns
    \/ SearchRaises
    \/ SkipCommand
    \/ ChatFinish

ChatSpec == ChatInit /\ [][ChatNext]_vars

-----------------------------------------------------------------------------
(* Properties of ChatOrchestrator.process_chat, checked under ChatSpec *)

\* C1: every call of process_chat ends with a response envelope, never with
\* an exception that reaches the caller, whatever the message, the context,
\* and the exceptions raised on the way.
C1_AlwaysAnEnvelope ==
    c_pc = "done" => response.kind \in {"success", "error", "fallback"}

-----------------------------------------------------------------------------
(* validate called again and again on one command *)

\* a command with any action value and one field, or no mapping
RepeatCommands ==
    UNION {{Mapping([NoFields EXCEPT !["action"] = a, ![fld] = v]) :
                a \in ActionValues, v \in FieldValues(fld)} : fld \in DataFields}
    \cup {NotMapping("list"), NotMapping("str")}

RepeatInit ==
    /\ cmd \in RepeatCommands
    /\ outcome = "pending"
    /\ validations = 0
    /\ BatchIdle
    /\ context = NoContext
    /\ DispatcherIdle
    /\ OrchestratorIdle
    /\ ConversationIdle

\* validator.validate(cmd), once more
Revalidate ==
    /\ outcome # "pending"
    /\ validations < MaxValidations
    /\ outcome' = validate(cmd)
    /\ cmd' = command_after_validate(cmd)
    /\ validations' = validations + 1
    /\ UNCHANGED <<batch, batch_result, context, dispatchVars, chatVars,
                   conversationVars>>

RepeatNext == Validate \/ Revalidate

RepeatSpec == RepeatInit /\ [][RepeatNext]_vars

-----------------------------------------------------------------------------
(* validate_batch on a list of commands *)

BatchLists == UNION {[1..n -> Candidates] : n \in 0..MaxBatch}

BatchInit ==
    /\ batch \in {AList(l) : l \in BatchLists} \cup {NotAList}
    /\ batch_result = NoBatchResult
    /\ cmd = NotMapping("none")
    /\ outcome = "idle"
    /\ validations = 0
    /\ context = NoContext
    /\ DispatcherIdle
    /\ OrchestratorIdle
    /\ ConversationIdle

\* validator.validate_batch(batch)
ValidateBatch ==
    /\ batch_result = NoBatchResult
    /\ batch_result' = validate_batch(batch)
    /\ UNCHANGED <<cmd, outcome, validations, batch, context, dispatchVars,
                   chatVars, conversationVars>>

BatchNext == ValidateBatch

BatchSpec == BatchInit /\ [][BatchNext]_vars

\* the positions of the batch, counted from 0, that validate rejects
RejectedPositions ==
    {i \in 0..(Len(batch.items) - 1) : validate(batch.items[i + 1]) # "accepted"}

\* C12: validate_batch on a list goes through every element whatever was
\* rejected before: validCommands is the accepted elements in their order,
\* errors holds one entry per rejected element, in order, with the index of
\* the element (from 0) and the element itself, and successCount +
\* errorCount = totalProcessed = the length of the list.
C12_BatchProcessesEveryElement ==
    batch_result # NoBatchResult /\ batch.kind = "list" =>
        /\ batch_result.kind = "result"
        /\ batch_result.validCommands = SelectSeq(batch.items, AcceptedCandidate)
        /\ {batch_result.errors[k].index : k \in 1..Len(batch_result.errors)}
              = RejectedPositions
        /\ Len(batch_result.errors) = Cardinality(RejectedPositions)
        /\ \A k \in 1..Len(batch_result.errors) :
              /\ batch_result.errors[k].command
                    = batch.items[batch_result.errors[k].index + 1]
              /\ k > 1 => batch_result.errors[k - 1].index < batch_result.errors[k].index
        /\ batch_result.totalProcessed = Len(batch.items)
        /\ batch_result.successCount = Len(batch_result.validCommands)
        /\ batch_result.errorCount = Len(batch_result.errors)
        /\ batch_result.successCount + batch_result.errorCount
              = batch_result.totalProcessed

C12_Witness ==
    /\ batch_result.kind = "result"
    /\ batch.items = <<CandTraversal, CandCreate, NotMapping("str")>>
    /\ batch_result.validCommands = <<CandCreate>>
    /\ batch_result.errorCount = 2

-----------------------------------------------------------------------------
(* The specification of the conversation manager: update_configuration     *)
(* any number of times, then one call of prepare_context.  history is the  *)
(* conversationHistory entry of the context, optimized the locals of the   *)
(* call of _optimize_conversation_history at line 23.                      *)

Letters ==
    <<"a", "b", "c", "d", "e", "f", "g", "h", "i", "j",
      "k", "l", "m", "n", "o", "p", "q", "r", "s", "t">>

\* one exchange for each letter, all complete and all different
LongHistory ==
    [i \in 1..Len(Letters) |->
        Exchange(StrE(<<"q", Letters[i]>>), StrE(<<"y", "e", "s">>))]

\* exchanges: two that differ in both texts and have one key at line 122, one
\* with an empty and one with a null ai text, one with a blank user text, one
\* with a short ai text
ExchangeValues ==
    {Exchange(StrE(<<"a", "_", "b">>), StrE(<<"c", "d", "e">>)),
     Exchange(StrE(<<"a">>), StrE(<<"b", "_", "c", "d", "e">>)),
     Exchange(StrE(<<"h", "i">>), StrE(<<>>)),
     Exchange(StrE(<<"h", "i">>), NullE),
     Exchange(StrE(<<" ">>), StrE(<<"o", "k", "a", "y">>)),
     Exchange(StrE(<<"h", "i">>), StrE(<<"o", "k">>))}

Histories ==
    {NotAList, AList(LongHistory)}
    \cup {AList(h) : h \in UNION {[1..n -> ExchangeValues] : n \in 0..MaxHistory}}

\* arguments of update_configuration
Configs == {Config(i, l) : i \in {0, 2, 60}, l \in {0, 5, 60000}}

\* context arguments: None, a value that is no mapping, the empty mapping, and
\* mappings with a null or a mapping customPrompt
PrepareContexts ==
    {NoContext, Context("other", "absent", FALSE), Context("dict", "absent", FALSE),
     Context("dict", "null", TRUE), Context("dict", "dict", FALSE),
     Context("dict", "dict", TRUE)}

ConversationInit ==
    /\ ValidatorIdle
    /\ DispatcherIdle
    /\ OrchestratorIdle
    /\ context \in PrepareContexts
    /\ history \in Histories
    /\ context.kind # "dict" => history = AList(<<>>)
    /\ max_history_items = DefaultHistoryItems
    /\ max_history_length = DefaultHistoryLength
    /\ optimized = NotOptimized
    /\ enriched = NotPrepared
    /\ suggestion = "idle"

UpdateConfiguration ==
    /\ enriched = NotPrepared
    /\ suggestion = "idle"
    /\ \E config \in Configs :
          /\ max_history_items' = configured_items(config, max_history_items)
          /\ max_history_length' = configured_length(config, max_history_length)
    /\ UNCHANGED <<validatorVars, dispatchVars, chatVars, history, optimized,
                   enriched, suggestion>>

PrepareContext ==
    /\ enriched = NotPrepared
    /\ optimized' =
          IF overlay_raises(context) THEN optimized
          ELSE optimize_conversation_history(history, max_history_items,
                                             max_history_length)
    /\ enriched' = prepare_context(context, optimized')
    /\ UNCHANGED <<validatorVars, dispatchVars, chatVars, max_history_items,
                   max_history_length, history, suggestion>>

ConversationNext == UpdateConfiguration \/ PrepareContext

ConversationSpec == ConversationInit /\ [][ConversationNext]_vars

\* prepare_context was called
PrepareCalled == enriched # NotPrepared

\* the context is absent, or a mapping in which customPrompt, currentFile or
\* openFileInfo is missing or null
MissingOrNull ==
    \/ context.kind = "none"
    \/ /\ context.kind = "dict"
       /\ context.customPrompt \in {"absent", "null"} \/ ~context.sized

\* C17: prepare_context returns an enriched context, and does not raise, for
\* an absent or empty context and for every context in which customPrompt,
\* currentFile or openFileInfo is missing or null; for an absent or empty
\* context the conversationHistory of what it returns is empty.
C17_PrepareContextReturns ==
    PrepareCalled /\ MissingOrNull =>
        /\ enriched.kind = "context"
        /\ history.items = <<>> => enriched.conversationHistory = <<>>

\* the history was optimized: the call at line 23 was made on a list
HistoryOptimized == optimized.kind = "list" /\ history.kind = "list"

\* the last max_history_items exchanges of the input
LastN ==
    LET n == Len(history.items)
    IN  IF n <= max_history_items THEN history.items
        ELSE [i \in 1..max_history_items |-> history.items[n - max_history_items + i]]

\* a is b with some of its elements left out
IsSubsequence(a, b) ==
    LET sub[i \in 0..Len(a), j \in 0..Len(b)] ==
            IF i = 0 THEN TRUE
            ELSE IF j = 0 THEN FALSE
            ELSE \/ a[i] = b[j] /\ sub[i - 1, j - 1]
                 \/ sub[i, j - 1]
    IN  sub[Len(a), Len(b)]

\* C18: the optimized conversationHistory is the last N exchanges of the
\* input (N = max_history_items) with some of them left out and the order
\* kept, and it is exactly the last N where nothing was left out; it is the
\* conversationHistory of the context prepare_context returns.
C18_OptimizedWithinLastN ==
    HistoryOptimized =>
        /\ enriched.kind = "context" => enriched.conversationHistory = optimized.items
        /\ IsSubsequence(optimized.items, LastN)
        /\ Len(optimized.items) = Len(LastN) => optimized.items = LastN

C18_Witness ==
    /\ HistoryOptimized
    /\ enriched.kind = "context"
    /\ Len(enriched.conversationHistory) = DefaultHistoryItems
    /\ history.items = LongHistory
    /\ max_history_items = DefaultHistoryItems
    /\ Len(optimized.items) = DefaultHistoryItems
    /\ optimized.items[1] = LongHistory[Len(LongHistory) - DefaultHistoryItems + 1]

\* the characters of the user and ai texts of some exchanges
Characters(entries) ==
    LET sum[i \in 0..Len(entries)] ==
            IF i = 0 THEN 0
            ELSE sum[i - 1] + Len(TextOf(entries[i].user)) + Len(TextOf(entries[i].ai))
    IN  sum[Len(entries)]

\* the last k of some exchanges
Suffix(entries, k) == [i \in 1..k |-> entries[Len(entries) - k + i]]

\* the longest suffix of some exchanges that has at most cap characters
LongestSuffixWithin(entries, cap) ==
    Suffix(entries,
           CHOOSE k \in 0..Len(entries) :
              /\ Characters(Suffix(entries, k)) <= cap
              /\ \A m \in (k + 1)..Len(entries) :
                    Characters(Suffix(entries, m)) > cap)

\* C19: the optimized history has at most max_history_length characters, and
\* where the last N exchanges have more, what is left of them before the
\* duplicates are removed is their longest suffix within the cap.
C19_OptimizedWithinLength ==
    HistoryOptimized =>
        /\ Characters(optimized.items) <= max_history_length
        /\ Characters(LastN) > max_history_length =>
              optimized.truncated = LongestSuffixWithin(LastN, max_history_length)

C19_Witness ==
    /\ HistoryOptimized
    /\ enriched.kind = "context"
    /\ Len(LastN) = 3
    /\ Characters(LastN) > max_history_length
    /\ LastN[1] = LastN[3]
    /\ entry_length(LastN[2]) > max_history_length
    /\ optimized.truncated = << LastN[3] >>

C19_WitnessEmpty ==
    /\ HistoryOptimized
    /\ LastN # <<>>
    /\ optimized.truncated = <<>>

SameTexts(e1, e2) ==
    /\ TextOf(e1.user) = TextOf(e2.user)
    /\ TextOf(e1.ai) = TextOf(e2.ai)

\* some exchanges without those that repeat the texts of an earlier one
FirstOccurrences(entries) ==
    LET first[i \in 0..Len(entries)] ==
            IF i = 0 THEN <<>>
            ELSE IF \E j \in 1..(i - 1) : SameTexts(entries[j], entries[i])
            THEN first[i - 1]
            ELSE Append(first[i - 1], entries[i])
    IN  first[Len(entries)]

\* C20: the removal of duplicates takes an exchange out exactly when an
\* earlier exchange of the scanned history has the same user text and the
\* same ai text.
C20_DedupRemovesExactDuplicates ==
    HistoryOptimized => optimized.unique = FirstOccurrences(optimized.truncated)

-----------------------------------------------------------------------------
(* The specification of a conversation that grows: update_configuration    *)
(* and add_history_entry any number of times, then one call of             *)
(* should_suggest_new_chat.  history is the conversationHistory the        *)
(* context holds.                                                          *)

Hi == <<"h", "i">>
Help == <<"H", "e", "l", "p">>
Okay == <<"o", "k", "a", "y">>

\* the exchanges a context starts with
StartExchanges ==
    {Exchange(StrE(Hi), StrE(Okay)), Exchange(StrE(Help), StrE(Okay)),
     Exchange(StrE(Hi), NullE)}

\* the exchanges add_history_entry is called with
NewExchanges ==
    {Exchange(StrE(Hi), StrE(Okay)), Exchange(StrE(Help), StrE(Okay)),
     Exchange(StrE(Okay), StrE(<<>>))}

GrowInit ==
    /\ ValidatorIdle
    /\ DispatcherIdle
    /\ OrchestratorIdle
    /\ context = NoContext
    /\ history \in {AList(h) : h \in UNION {[1..n -> StartExchanges] : n \in 0..MaxHistory}}
    /\ max_history_items = DefaultHistoryItems
    /\ max_history_length = DefaultHistoryLength
    /\ optimized = NotOptimized
    /\ enriched = NotPrepared
    /\ suggestion = "idle"

\* add_history_entry on a context that holds at most MaxHistory exchanges
AddHistoryEntry ==
    /\ suggestion = "idle"
    /\ Len(history.items) <= MaxHistory
    /\ \E entry \in NewExchanges :
          /\ optimized' = optimize_conversation_history(
                              AList(Append(history.items, entry)),
                              max_history_items, max_history_length)
          /\ history' = AList(history_after_add(Append(history.items, entry),
                                                optimized'))
    /\ UNCHANGED <<validatorVars, dispatchVars, chatVars, max_history_items,
                   max_history_length, enriched, suggestion>>

ShouldSuggestNewChat ==
    /\ suggestion = "idle"
    /\ suggestion' = should_suggest_new_chat(history.items, max_history_items,
                                             max_history_length)
    /\ UNCHANGED <<validatorVars, dispatchVars, chatVars, max_history_items,
                   max_history_length, history, optimized, enriched>>

GrowNext == UpdateConfiguration \/ AddHistoryEntry \/ ShouldSuggestNewChat

GrowSpec == GrowInit /\ [][GrowNext]_vars

\* the optimization was run on a list
OptimizeCalled == optimized.kind \in {"list", "raised"} /\ history.kind = "list"

\* the user text is empty or whitespace-only, or the ai text is non-empty and
\* shorter than three characters
Incomplete(entry) ==
    \/ entry.user.t # "str"
    \/ \A i \in 1..Len(entry.user.s) : entry.user.s[i] \in Whitespace
    \/ /\ entry.ai.t = "str"
       /\ entry.ai.s # <<>>
       /\ Len(entry.ai.s) < 3

\* some exchanges without the incomplete ones
WithoutIncomplete(entries) ==
    LET kept[i \in 0..Len(entries)] ==
            IF i = 0 THEN <<>>
            ELSE IF Incomplete(entries[i]) THEN kept[i - 1]
            ELSE Append(kept[i - 1], entries[i])
    IN  kept[Len(entries)]

\* C21: the optimization completes on every history of exchanges whose ai is
\* a text, the empty string or null, and drops as incomplete exactly the
\* exchanges whose user text is empty or whitespace-only or whose ai text is
\* non-empty and shorter than three characters; an exchange with a user text
\* and a null or empty ai is kept.
C21_IncompleteExactlyDropped ==
    OptimizeCalled =>
        /\ optimized.kind = "list"
        /\ optimized.items = WithoutIncomplete(optimized.unique)

\* every user and ai value of the history is a text
AllTexts ==
    \A i \in 1..Len(history.items) :
        history.items[i].user.t = "str" /\ history.items[i].ai.t = "str"

\* the user message of the most recent exchange mentions a keyword of the
\* context switch
LastMessageHasKeyword ==
    /\ history.items # <<>>
    /\ \E keyword \in keywords :
          Contains(lowered_user(history.items[Len(history.items)]), keyword)

\* C22: should_suggest_new_chat is true exactly when the history has at
\* least max_history_items exchanges, or at least max_history_length
\* characters, or the most recent user message contains a keyword of the
\* context switch, whatever the length of the history.
C22_SuggestionExactlyWhenDue ==
    suggestion # "idle" /\ AllTexts =>
        (suggestion = "yes" <=>
            \/ Len(history.items) >= max_history_items
            \/ Characters(history.items) >= max_history_length
            \/ LastMessageHasKeyword)

\* C30: after every call of add_history_entry the conversationHistory the
\* context holds has at most max_history_items exchanges and at most
\* max_history_length characters.
C30_HistoryStaysWithinLimits ==
    [][AddHistoryEntry =>
          /\ Len(history'.items) <= max_history_items'
          /\ Characters(history'.items) <= max_history_length']_vars

(***************************************************************************)
(* build_error_response on its own: every error text of ErrorTexts, with   *)
(* every original message and every original context.                      *)
(***************************************************************************)
ErrorTexts ==
    {
     <<"A", "P", "I", "_", "K", "E", "Y">>,
     <<"A", "u", "t", "h", "e", "n", "t", "i", "c", "a", "t", "i", "o", "n">>,
     <<"R", "a", "t", "e", " ", "L", "i", "m", "i", "t">>,
     <<"4", "2", "9", " ", "a", "p", "i", "_", "k", "e", "y">>,
     <<"F", "e", "t", "c", "h", " ", "5", "0", "0">>,
     <<"5", "0", "3", " ", "r", "a", "t", "e", " ", "l", "i", "m", "i", "t">>,
     <<"n", "e", "t", "w", "o", "r", "k">>,
     <<"C", "o", "n", "n", "e", "c", "t", "i", "o", "n">>,
     <<"f", "e", "t", "c", "h">>,
     <<"5", "0", "0">>,
     <<"5", "0", "2">>,
     <<"5", "0", "3">>,
     <<"b", "o", "o", "m">>,
     <<>>
    }

ErrorInit ==
    /\ ValidatorIdle
    /\ DispatcherIdle
    /\ ConversationIdle
    /\ context \in ChatContexts
    /\ message \in Messages
    /\ error_text \in ErrorTexts
    /\ c_pc = "idle"
    /\ validated = <<>>
    /\ executed = 0
    /\ response = NoResponse
    /\ searches = <<>>

\* response_builder.py:31-54, called with the message and context as given
BuildErrorResponse ==
    /\ response = NoResponse
    /\ response' = build_error_response(error_text, message, context)
    /\ UNCHANGED <<context, message, error_text, searches, c_pc, validated,
                   executed, dispatchVars, validatorVars, conversationVars>>

ErrorNext == BuildErrorResponse

ErrorSpec == ErrorInit /\ [][ErrorNext]_vars

\* the classification rules in the order the claim lists them
Rules ==
    <<
      [type |-> "api_key_missing",
       words |-> {<<"a", "p", "i", "_", "k", "e", "y">>,
                  <<"a", "u", "t", "h", "e", "n", "t", "i", "c", "a", "t", "i", "o", "n">>}],
      [type |-> "rate_limit",
       words |-> {<<"r", "a", "t", "e", " ", "l", "i", "m", "i", "t">>,
                  <<"4", "2", "9">>}],
      [type |-> "network_error",
       words |-> {<<"n", "e", "t", "w", "o", "r", "k">>,
                  <<"c", "o", "n", "n", "e", "c", "t", "i", "o", "n">>,
                  <<"f", "e", "t", "c", "h">>}],
      [type |-> "server_error",
       words |-> {<<"5", "0", "0">>,
                  <<"5", "0", "2">>,
                  <<"5", "0", "3">>}]
    >>

LowerCased(text) == [i \in 1..Len(text) |-> Lower(text[i])]

Matching(text) ==
    {i \in 1..Len(Rules) :
        \E w \in Rules[i].words : Contains(LowerCased(text), w)}

FirstMatch(text) ==
    IF Matching(text) = {} THEN "unknown"
    ELSE Rules[CHOOSE i \in Matching(text) :
                   \A j \in Matching(text) : i <= j].type

\* C23: the error type of an error envelope is that of the first rule, in
\* the order api_key_missing, rate_limit, network_error, server_error, with
\* a word the lower-cased error text contains, and unknown when there is none
C23_FirstMatchingRuleClassifies ==
    response.kind = "error" => response.error_type = FirstMatch(error_text)

\* an error envelope for a text with upper-case letters that two rules match
C23_Witness ==
    /\ response.kind = "error"
    /\ Cardinality(Matching(error_text)) >= 2
    /\ LowerCased(error_text) # error_text
    /\ response.error_type = "network_error"

\* C24: build_error_response never raises: whatever the error, the original
\* message and the original context, it returns an envelope with
\* parse_success false, fallback_mode true, the error text and its type
C24_ErrorEnvelopeAlwaysBuilt ==
    response # NoResponse =>
        /\ response.kind = "error"
        /\ ~response.parse_success
        /\ response.fallback_mode
        /\ response.error = StrE(error_text)
        /\ response.error_type = FirstMatch(error_text)

(***************************************************************************)
(* Commands and searches of process_chat                                   *)
(***************************************************************************)
IsWebSearch(c) == c.f["action"] = VStr(<<"web_search">>)

PassedValidation(commands) ==
    SelectSeq(commands, LAMBDA c : validate(c) = "accepted")

\* C25: the commands of a success envelope are, in their order, the commands
\* of the dispatch result that passed validation and are no web_search, and
\* its search_results are those of the last search that succeeded
C25_OnlyValidatedNonSearchCommands ==
    response.kind = "success" =>
        /\ response.commands =
               SelectSeq(PassedValidation(result.commands),
                         LAMBDA c : ~IsWebSearch(c))
        /\ \A i \in 1..Len(searches) :
               searches[i].outcome = "success" => response.search_results >= i
        /\ response.search_results # 0 =>
               /\ response.search_results \in 1..Len(searches)
               /\ searches[response.search_results].outcome = "success"

\* a success envelope for a result with a search that succeeded, a command
\* handed to the caller and fewer commands handed over than dispatched
C25_Witness ==
    /\ response.kind = "success"
    /\ response.search_results # 0
    /\ response.commands # <<>>
    /\ Len(response.commands) < Len(result.commands)

\* C28: perform_search is called only for web_search commands of the result
\* that passed validation, and only once every command of the result has
\* been validated
C28_SearchOnlyAfterValidation ==
    searches # <<>> =>
        /\ c_pc \in {"executing", "done"}
        /\ validated = PassedValidation(result.commands)
        /\ \A i \in 1..Len(searches) :
               /\ IsWebSearch(searches[i].command)
               /\ validate(searches[i].command) = "accepted"
               /\ \E j \in 1..Len(result.commands) :
                      result.commands[j] = searches[i].command

\* a search was made for a result that also holds a web_search command with
\* a query that failed validation
C28_Witness ==
    /\ searches # <<>>
    /\ \E j \in 1..Len(result.commands) :
          /\ validate(result.commands[j]) # "accepted"
          /\ runs_search(result.commands[j])

====
